---- MODULE Spec2Model ----
(***************************************************************************)
(* Circulation engine of the library system: the books, lending,           *)
(* reservations and notifications tables of db_connection.py and the       *)
(* operations of models/lending.py, models/reservations.py and             *)
(* models/books.py that move copies between them.                          *)
(*                                                                         *)
(* Every call of execute_query / execute_update is one atomic step (one    *)
(* SQLite statement followed by commit); the Python code between two       *)
(* statements is local to the caller and belongs to the step of the        *)
(* statement that precedes it.  Callers (Procs) interleave at statement    *)
(* granularity, which is what several programs, or several threads over    *)
(* the shared connection (check_same_thread=False), can do.                *)
(***************************************************************************)
EXTENDS Integers, Sequences, FiniteSets, TLC

VARIABLES
    books,          \* table books: book_id -> [total_copies, available_copies]
    users,          \* table users: user_id -> [is_active]
    lending,        \* table lending: row lending_id = index (AUTOINCREMENT)
    reservations,   \* table reservations: row reservation_id = index
    notifications,  \* table notifications, in insertion order
    clock,          \* datetime.now(): [instant, day], the last instant it
                    \* returned and the calendar day it is
    modelsOnPath,   \* does the module search path resolve the name "models"
    last_insert_rowid,  \* lastrowid of db_manager.last_cursor: the rowid of
                    \* the last INSERT on the connection the callers share
    dbFaults,       \* statements the storage may still fail (execute_update -> False)
    pc,             \* per caller: the statement it executes next
    call,           \* per caller: the operation, its arguments and its result
    loc,            \* per caller: the objects the operation has loaded
    script,         \* the calls a test driver has made so far, in order
    snap,           \* the tables as they were at each call of the driver
    result          \* what the driver's calls returned, in order of return

vars == <<books, users, lending, reservations, notifications, clock,
          modelsOnPath, last_insert_rowid, dbFaults, pc, call, loc, script,
          result, snap>>

db == <<books, users, lending, reservations, notifications>>

----------------------------------------------------------------------------
\* Bounds of the model.

MaxCopies == 2   \* largest total_copies of a catalogued book
MaxLoans == 2    \* lendings issued while callers interleave
MaxRes == 2      \* reservations made while callers interleave
MaxNotes == 2    \* notifications after which no further return is called
MaxTime == 1     \* largest value of the clock
SeqMaxRes == 3   \* reservations made when calls run one at a time
ScriptLen == 5   \* calls a test driver makes
MaxFaults == 2   \* database writes that fail
ArgScriptLen == 4    \* calls a test driver makes with arguments of every kind
QueueLen == 3    \* reservations in the table a queue position is asked of
FaultScriptLen == 3  \* calls a test driver makes on a failing database
MaxDay == 3      \* days that pass
MaxLoanDays == 1 \* longest loan period asked for when days pass
MaxFine == 1     \* largest fine_amount passed to return_book
MaxRate == 2     \* largest fine_per_day passed to calculate_fine
DateScriptLen == 3   \* calls a test driver makes while days pass
AdjustScriptLen == 4 \* calls of update_availability a test driver makes
PathScriptLen == 3   \* calls a test driver makes over both return paths
TieScriptLen == 3    \* calls a test driver makes on a queue of two
HistoryCalls == 2    \* issue and return calls two callers make on a failing database
CatalogScriptLen == 3    \* calls a test driver makes, catalogue edits among them

BookIds == {1}
UserIds == {1, 2}
SeqUserIds == {1, 2, 3}
Procs == {1, 2}

NoRow == [none |-> TRUE]     \* Python None: no such row / no object loaded

DefaultLoanDays == 14        \* issue_book(..., loan_days: int = 14)

----------------------------------------------------------------------------
\* Rows and queries.

\* Book.get_by_id: the row of the book, or None.
Book_get_by_id(b) == IF b \in DOMAIN books THEN books[b] ELSE NoRow

\* User.get_by_id: the row of the user, or None.
User_get_by_id(u) == IF u \in DOMAIN users THEN users[u] ELSE NoRow

\* Lending.get_by_id: the row of the lending, or None (a deleted row is gone).
Lending_get_by_id(l) ==
    IF l \in 1..Len(lending) /\ lending[l] # NoRow THEN lending[l] ELSE NoRow

\* Reservation.get_by_id
Reservation_get_by_id(r) ==
    IF r \in 1..Len(reservations) THEN reservations[r] ELSE NoRow

\* Book.is_available on a loaded Book object.
is_available(book) == book.available_copies > 0

\* SELECT * FROM lending WHERE book_id = ? AND user_id = ? AND status = 'active'
ActiveLendings(b, u) ==
    {l \in 1..Len(lending) : /\ lending[l] # NoRow
                             /\ lending[l].book_id = b
                             /\ lending[l].user_id = u
                             /\ lending[l].status = "active"}

\* SELECT * FROM reservations WHERE book_id = ? AND user_id = ? AND status = 'pending'
PendingReservations(b, u) ==
    {r \in 1..Len(reservations) : /\ reservations[r].book_id = b
                                  /\ reservations[r].user_id = u
                                  /\ reservations[r].status = "pending"}

\* SELECT * FROM reservations WHERE book_id = ? AND status = 'pending'
PendingOfBook(b) ==
    {r \in 1..Len(reservations) : /\ reservations[r].book_id = b
                                  /\ reservations[r].status = "pending"}

\* ... ORDER BY reservation_date LIMIT 1: the rows the statement may return.
\* SQL leaves the order of rows with equal reservation_date open.
NextInQueue(b) ==
    {r \in PendingOfBook(b) :
        \A q \in PendingOfBook(b) :
            reservations[r].reservation_date <= reservations[q].reservation_date}

\* The same query with <= for < in the comparison of the dates.
get_queue_position_not_strict(b, u) ==
    LET sub == {reservations[r].reservation_date : r \in PendingReservations(b, u)}
    IN  IF sub = {}
        THEN {0 + 1}
        ELSE {Cardinality({r1 \in PendingOfBook(b) :
                              reservations[r1].reservation_date <= d}) + 1 :
                 d \in sub}

\* Reservation.get_queue_position, lines 162-175: the values the call may
\* return.  SELECT COUNT(*) FROM reservations r1 WHERE r1.book_id = ? AND
\* r1.status = 'pending' AND r1.reservation_date < (SELECT r2.reservation_date
\* ... of the user's pending reservation of the book), plus 1.  The scalar
\* subquery yields the date of one matching row, or NULL when there is none;
\* a comparison with NULL is not true of any row, so the count is 0.
get_queue_position(b, u) ==
    LET sub == {reservations[r].reservation_date : r \in PendingReservations(b, u)}
    IN  IF sub = {}
        THEN {0 + 1}
        ELSE {Cardinality({r1 \in PendingOfBook(b) :
                              reservations[r1].reservation_date < d}) + 1 :
                 d \in sub}

\* Book.update_availability, lines 223-231: the value to write and the checks.
new_available(book, change) == book.available_copies + change

\* The same checks without lines 225-227 (the lower limit).
update_availability_no_lower_limit(book, change) ==
    ~ (new_available(book, change) > book.total_copies)

\* The same checks without lines 229-231 (the upper limit).
update_availability_no_upper_limit(book, change) ==
    ~ (new_available(book, change) < 0)

update_availability_allowed(book, change) ==
    /\ ~ (new_available(book, change) < 0)
    /\ ~ (new_available(book, change) > book.total_copies)

\* DatabaseManager.execute_update: True, or False when the statement raised.
execute_update(ok) ==
    /\ ok \in BOOLEAN
    /\ ~ok => dbFaults > 0
    /\ dbFaults' = IF ok THEN dbFaults ELSE dbFaults - 1

\* An INSERT through execute_update: db_manager.last_cursor is the cursor of
\* the last statement that succeeded, and its lastrowid the new row's id.
last_insert(ok, rowid) ==
    last_insert_rowid' = IF ok THEN rowid ELSE last_insert_rowid

\* datetime.now(): the clock has not gone back since the last reading.
now(t) ==
    /\ t \in {clock.instant, clock.instant + 1}
    /\ t <= MaxTime
    /\ clock' = [clock EXCEPT !.instant = t]

\* datetime.now() in whole days.
today == clock.day

\* return_date of a lending that has not been returned (Python None).
NoDate == 0 - 1

\* The Lending object of issue_book lines 50-59: issue_date = datetime.now(),
\* due_date = issue_date + timedelta(days=loan_days); __init__ (lines 9-20)
\* leaves return_date None and fine_amount 0.
NewLending(b, u, issue_date, loan_days) ==
    [book_id |-> b, user_id |-> u, issue_date |-> issue_date,
     due_date |-> issue_date + loan_days, return_date |-> NoDate,
     fine_amount |-> 0, status |-> "active"]

----------------------------------------------------------------------------
\* Callers.

NoCall == [op |-> "none", book_id |-> 0, user_id |-> 0, id |-> 0,
           loan_days |-> 0, fine_amount |-> 0, change |-> 0,
           total_copies |-> 0, available_copies |-> 0]
NoLoc == [book |-> NoRow, row |-> NoRow, sel |-> 0, sel_user |-> 0]

\* The operation returns ret from the place `at`: the arguments and the loaded
\* objects are dropped; a test driver, when there is one, keeps the result.
Finish(p, ret, at) ==
    /\ pc' = [pc EXCEPT ![p] = "idle"]
    /\ call' = [call EXCEPT ![p] = NoCall]
    /\ loc' = [loc EXCEPT ![p] = NoLoc]
    /\ result' = IF script = <<>> THEN result
                 ELSE Append(result, [caller |-> p, ret |-> ret, at |-> at])
    /\ UNCHANGED <<script, snap>>

Goto(p, label) ==
    pc' = [pc EXCEPT ![p] = label] /\ UNCHANGED <<script, snap, result>>

InFlight(op) == Cardinality({q \in Procs : call[q].op = op})

----------------------------------------------------------------------------
\* Lending.issue_book(book_id, user_id)

\* A caller enters the operation (script is left to the specification).
CallIssueFor(p, b, u, days) ==
    /\ pc[p] = "idle"
    /\ pc' = [pc EXCEPT ![p] = "issue_get_book"]
    /\ call' = [call EXCEPT ![p] = [NoCall EXCEPT !.op = "issue_book",
                                                  !.book_id = b, !.user_id = u,
                                                  !.loan_days = days]]
    /\ loc' = [loc EXCEPT ![p] = NoLoc]
    /\ UNCHANGED <<db, clock, modelsOnPath, last_insert_rowid, dbFaults, result>>

\* issue_book(book_id, user_id) with the default loan_days = 14.
CallIssue(p, b, u) == CallIssueFor(p, b, u, DefaultLoanDays)

\* lines 28-32: book = Book.get_by_id(book_id); not book or not book.is_available()
issue_book_get_book(p) ==
    /\ pc[p] = "issue_get_book"
    /\ LET book == Book_get_by_id(call[p].book_id) IN
         IF book = NoRow \/ ~is_available(book)
         THEN Finish(p, "None", "not_available")
         ELSE /\ Goto(p, "issue_get_user")
              /\ loc' = [loc EXCEPT ![p].book = book]
              /\ UNCHANGED call
    /\ UNCHANGED <<db, clock, modelsOnPath, last_insert_rowid, dbFaults>>

\* lines 34-38: user = User.get_by_id(user_id); not user or not user.is_active
issue_book_get_user(p) ==
    /\ pc[p] = "issue_get_user"
    /\ LET user == User_get_by_id(call[p].user_id) IN
         IF user = NoRow \/ ~user.is_active
         THEN Finish(p, "None", "user")
         ELSE Goto(p, "issue_existing") /\ UNCHANGED <<call, loc>>
    /\ UNCHANGED <<db, clock, modelsOnPath, last_insert_rowid, dbFaults>>

\* The same step without the query of lines 41-47.
issue_book_existing_unchecked(p) ==
    /\ pc[p] = "issue_existing"
    /\ Goto(p, "issue_save")
    /\ loc' = [loc EXCEPT ![p].row =
                  NewLending(call[p].book_id, call[p].user_id,
                             today, call[p].loan_days)]
    /\ UNCHANGED <<db, clock, modelsOnPath, last_insert_rowid, dbFaults, call>>

\* lines 40-59: the user already has an active lending of this book; else
\* the Lending object is built with issue_date = datetime.now()
issue_book_existing(p) ==
    /\ pc[p] = "issue_existing"
    /\ IF ActiveLendings(call[p].book_id, call[p].user_id) # {}
       THEN Finish(p, "None", "existing")
       ELSE /\ Goto(p, "issue_save")
            /\ loc' = [loc EXCEPT ![p].row =
                          NewLending(call[p].book_id, call[p].user_id,
                                     today, call[p].loan_days)]
            /\ UNCHANGED call
    /\ UNCHANGED <<db, clock, modelsOnPath, last_insert_rowid, dbFaults>>

\* line 61, Lending.save (lines 297-306): INSERT INTO lending
issue_book_save(p) ==
    /\ pc[p] = "issue_save"
    /\ \E ok \in BOOLEAN :
         /\ execute_update(ok)
         /\ last_insert(ok, Len(lending) + 1)
         /\ IF ok
            THEN /\ lending' = Append(lending, loc[p].row)
                 /\ Goto(p, "issue_last_insert_id")
                 /\ UNCHANGED <<call, loc>>
            ELSE Finish(p, "None", "save") /\ UNCHANGED lending
    /\ UNCHANGED <<books, users, reservations, notifications, clock,
                   modelsOnPath>>

\* Lending.save line 304: self.lending_id = db_manager.get_last_insert_id(),
\* which reads the cursor of the last statement any caller has run
issue_book_last_insert_id(p) ==
    /\ pc[p] = "issue_last_insert_id"
    /\ call' = [call EXCEPT ![p].id = last_insert_rowid]
    /\ Goto(p, "issue_update")
    /\ UNCHANGED <<db, clock, modelsOnPath, last_insert_rowid, dbFaults, loc>>

\* lines 62-65, Book.update_availability(-1) on the Book object loaded at line 29
issue_book_update_availability(p) ==
    /\ pc[p] = "issue_update"
    /\ IF ~update_availability_allowed(loc[p].book, -1)
       THEN Goto(p, "issue_rollback") /\ UNCHANGED <<books, dbFaults, call, loc>>
       ELSE \E ok \in BOOLEAN :
              /\ execute_update(ok)
              /\ IF ok
                 THEN /\ books' = [b \in DOMAIN books |->
                                     IF b = call[p].book_id
                                     THEN [books[b] EXCEPT !.available_copies =
                                              new_available(loc[p].book, -1)]
                                     ELSE books[b]]
                      /\ Finish(p, "Lending", "issued")
                 ELSE Goto(p, "issue_rollback") /\ UNCHANGED <<books, call, loc>>
    /\ UNCHANGED <<users, lending, reservations, notifications, clock,
                   modelsOnPath, last_insert_rowid>>

\* lines 66-69, Lending.delete (lines 322-331): DELETE FROM lending
issue_book_rollback(p) ==
    /\ pc[p] = "issue_rollback"
    /\ \E ok \in BOOLEAN :
         /\ execute_update(ok)
         /\ lending' = IF ok /\ call[p].id \in 1..Len(lending)
                       THEN [lending EXCEPT ![call[p].id] = NoRow]
                       ELSE lending
    /\ Finish(p, "None", "rollback")
    /\ UNCHANGED <<books, users, reservations, notifications, clock,
                   modelsOnPath, last_insert_rowid>>

----------------------------------------------------------------------------
\* Lending.return_book(lending_id)

CallReturnFine(p, l, fine) ==
    /\ pc[p] = "idle"
    /\ pc' = [pc EXCEPT ![p] = "return_get_by_id"]
    /\ call' = [call EXCEPT ![p] = [NoCall EXCEPT !.op = "return_book", !.id = l,
                                                  !.fine_amount = fine]]
    /\ loc' = [loc EXCEPT ![p] = NoLoc]
    /\ UNCHANGED <<db, clock, modelsOnPath, last_insert_rowid, dbFaults, result>>

\* return_book(lending_id) with the default fine_amount = 0.0.
CallReturn(p, l) == CallReturnFine(p, l, 0)

\* lines 79-87: lending = cls.get_by_id(lending_id); not lending or not active;
\* the loaded object gets return_date = datetime.now(), the fine_amount
\* argument and status 'returned'
return_book_get_by_id(p) ==
    /\ pc[p] = "return_get_by_id"
    /\ LET row == Lending_get_by_id(call[p].id) IN
         IF row = NoRow \/ row.status # "active"
         THEN Finish(p, "False", "not_active")
         ELSE /\ Goto(p, "return_save")
              /\ loc' = [loc EXCEPT ![p].row =
                            [row EXCEPT !.return_date = today,
                                        !.fine_amount = call[p].fine_amount,
                                        !.status = "returned"]]
              /\ UNCHANGED call
    /\ UNCHANGED <<db, clock, modelsOnPath, last_insert_rowid, dbFaults>>

\* line 89, Lending.save (lines 307-315): UPDATE lending SET every column of
\* the loaded object WHERE lending_id = ?
return_book_save(p) ==
    /\ pc[p] = "return_save"
    /\ \E ok \in BOOLEAN :
         /\ execute_update(ok)
         /\ IF ok
            THEN /\ lending' = [l \in 1..Len(lending) |->
                                  IF l = call[p].id /\ lending[l] # NoRow
                                  THEN loc[p].row ELSE lending[l]]
                 /\ Goto(p, "return_get_book")
                 /\ UNCHANGED <<call, loc>>
            ELSE Finish(p, "False", "save") /\ UNCHANGED lending
    /\ UNCHANGED <<books, users, reservations, notifications, clock,
                   modelsOnPath, last_insert_rowid>>

\* lines 91-92: book = Book.get_by_id(lending.book_id); `book and`; the checks
\* of update_availability(1) (books.py lines 223-231) on the object just loaded
return_book_get_book(p) ==
    /\ pc[p] = "return_get_book"
    /\ LET book == Book_get_by_id(loc[p].row.book_id) IN
         IF book = NoRow
         THEN Finish(p, "False", "no_book")
         ELSE IF ~update_availability_allowed(book, 1)
         THEN Finish(p, "False", "not_allowed")
         ELSE /\ Goto(p, "return_update")
              /\ loc' = [loc EXCEPT ![p].book = book]
              /\ UNCHANGED call
    /\ UNCHANGED <<db, clock, modelsOnPath, last_insert_rowid, dbFaults>>

\* line 92, books.py lines 233-242: UPDATE books SET available_copies = ?
return_book_update_availability(p) ==
    /\ pc[p] = "return_update"
    /\ \E ok \in BOOLEAN :
         /\ execute_update(ok)
         /\ IF ok
            THEN /\ books' = [b \in DOMAIN books |->
                                IF b = loc[p].row.book_id
                                THEN [books[b] EXCEPT !.available_copies =
                                         new_available(loc[p].book, 1)]
                                ELSE books[b]]
                 /\ Goto(p, "return_process_next")
                 /\ UNCHANGED <<call, loc>>
            ELSE Finish(p, "False", "update") /\ UNCHANGED books
    /\ UNCHANGED <<users, lending, reservations, notifications, clock,
                   modelsOnPath, last_insert_rowid>>

\* line 96, _process_next_reservation lines 269-280: the import of
\* models.reservations raises ModuleNotFoundError unless the name resolves;
\* then SELECT ... WHERE book_id = ? AND status = 'pending'
\* ORDER BY reservation_date LIMIT 1
process_next_reservation_select(p) ==
    /\ pc[p] = "return_process_next"
    /\ IF ~modelsOnPath
       THEN Finish(p, "raised", "import")
       ELSE IF NextInQueue(loc[p].row.book_id) = {}
       THEN Finish(p, "True", "returned")
       ELSE \E r \in NextInQueue(loc[p].row.book_id) :
              /\ Goto(p, "return_notify")
              /\ loc' = [loc EXCEPT ![p].sel = r,
                                    ![p].sel_user = reservations[r].user_id]
              /\ UNCHANGED call
    /\ UNCHANGED <<db, clock, modelsOnPath, last_insert_rowid, dbFaults>>

\* The same with the selected reservation marked fulfilled as well.
process_next_reservation_notify_and_fulfill(p) ==
    /\ pc[p] = "return_notify"
    /\ \E ok \in BOOLEAN :
         /\ execute_update(ok)
         /\ last_insert(ok, Len(notifications) + 1)
         /\ notifications' =
               IF ok
               THEN Append(notifications, [user_id |-> loc[p].sel_user,
                                           book_id |-> loc[p].row.book_id])
               ELSE notifications
    /\ reservations' = [reservations EXCEPT ![loc[p].sel].status = "fulfilled"]
    /\ Finish(p, "True", "returned")
    /\ UNCHANGED <<books, users, lending, clock, modelsOnPath>>

\* _process_next_reservation lines 281-289, return_book line 97:
\* INSERT INTO notifications (user_id, message, type); the result is ignored
process_next_reservation_notify(p) ==
    /\ pc[p] = "return_notify"
    /\ \E ok \in BOOLEAN :
         /\ execute_update(ok)
         /\ last_insert(ok, Len(notifications) + 1)
         /\ notifications' =
               IF ok
               THEN Append(notifications, [user_id |-> loc[p].sel_user,
                                           book_id |-> loc[p].row.book_id])
               ELSE notifications
    /\ Finish(p, "True", "returned")
    /\ UNCHANGED <<books, users, lending, reservations, clock,
                   modelsOnPath>>

----------------------------------------------------------------------------
\* Reservation.create_reservation(book_id, user_id)

CallReserve(p, b, u) ==
    /\ pc[p] = "idle"
    /\ pc' = [pc EXCEPT ![p] = "reserve_get_book"]
    /\ call' = [call EXCEPT ![p] = [NoCall EXCEPT !.op = "create_reservation",
                                                  !.book_id = b, !.user_id = u]]
    /\ loc' = [loc EXCEPT ![p] = NoLoc]
    /\ UNCHANGED <<db, clock, modelsOnPath, last_insert_rowid, dbFaults, result>>

\* lines 25-29: book = Book.get_by_id(book_id); not book
create_reservation_get_book(p) ==
    /\ pc[p] = "reserve_get_book"
    /\ LET book == Book_get_by_id(call[p].book_id) IN
         IF book = NoRow
         THEN Finish(p, "None", "no_book")
         ELSE /\ Goto(p, "reserve_get_user")
              /\ loc' = [loc EXCEPT ![p].book = book]
              /\ UNCHANGED call
    /\ UNCHANGED <<db, clock, modelsOnPath, last_insert_rowid, dbFaults>>

\* lines 31-40: user = User.get_by_id(user_id); not user or not user.is_active;
\* then book.is_available() on the Book object loaded at line 26
create_reservation_get_user(p) ==
    /\ pc[p] = "reserve_get_user"
    /\ LET user == User_get_by_id(call[p].user_id) IN
         IF user = NoRow \/ ~user.is_active
         THEN Finish(p, "None", "user")
         ELSE IF is_available(loc[p].book)
         THEN Finish(p, "None", "available")
         ELSE Goto(p, "reserve_existing") /\ UNCHANGED <<call, loc>>
    /\ UNCHANGED <<db, clock, modelsOnPath, last_insert_rowid, dbFaults>>

\* The same step without the query of lines 43-49.
create_reservation_existing_unchecked(p) ==
    /\ pc[p] = "reserve_existing"
    /\ Goto(p, "reserve_lending")
    /\ UNCHANGED <<db, clock, modelsOnPath, last_insert_rowid, dbFaults, call, loc>>

\* lines 42-49: the user already has a pending reservation of this book
create_reservation_existing(p) ==
    /\ pc[p] = "reserve_existing"
    /\ IF PendingReservations(call[p].book_id, call[p].user_id) # {}
       THEN Finish(p, "None", "existing")
       ELSE Goto(p, "reserve_lending") /\ UNCHANGED <<call, loc>>
    /\ UNCHANGED <<db, clock, modelsOnPath, last_insert_rowid, dbFaults>>

\* lines 51-66: the user has the book borrowed; else the Reservation object is
\* built with reservation_date = datetime.now()
create_reservation_current_lending(p) ==
    /\ pc[p] = "reserve_lending"
    /\ IF ActiveLendings(call[p].book_id, call[p].user_id) # {}
       THEN Finish(p, "None", "borrowed") /\ UNCHANGED clock
       ELSE \E t \in 0..MaxTime :
              /\ now(t)
              /\ Goto(p, "reserve_save")
              /\ loc' = [loc EXCEPT ![p].row =
                            [book_id |-> call[p].book_id,
                             user_id |-> call[p].user_id,
                             reservation_date |-> t,
                             status |-> "pending",
                             notification_sent |-> FALSE]]
              /\ UNCHANGED call
    /\ UNCHANGED <<db, modelsOnPath, last_insert_rowid, dbFaults>>

\* line 68, Reservation.save (lines 263-272): INSERT INTO reservations
create_reservation_save(p) ==
    /\ pc[p] = "reserve_save"
    /\ \E ok \in BOOLEAN :
         /\ execute_update(ok)
         /\ last_insert(ok, Len(reservations) + 1)
         /\ IF ok
            THEN /\ reservations' = Append(reservations, loc[p].row)
                 /\ Finish(p, "Reservation", "reserved")
            ELSE Finish(p, "None", "save") /\ UNCHANGED reservations
    /\ UNCHANGED <<books, users, lending, notifications, clock,
                   modelsOnPath>>

----------------------------------------------------------------------------
\* Reservation.get_by_id(reservation_id).cancel()

CallCancel(p, r) ==
    /\ pc[p] = "idle"
    /\ pc' = [pc EXCEPT ![p] = "cancel_get_by_id"]
    /\ call' = [call EXCEPT ![p] = [NoCall EXCEPT !.op = "cancel", !.id = r]]
    /\ loc' = [loc EXCEPT ![p] = NoLoc]
    /\ UNCHANGED <<db, clock, modelsOnPath, last_insert_rowid, dbFaults, result>>

\* The same step without the status test of lines 222-224.
cancel_get_by_id_unchecked(p) ==
    /\ pc[p] = "cancel_get_by_id"
    /\ LET row == Reservation_get_by_id(call[p].id) IN
         IF row = NoRow
         THEN Finish(p, "False", "not_found")
         ELSE /\ Goto(p, "cancel_save")
              /\ loc' = [loc EXCEPT ![p].row = [row EXCEPT !.status = "cancelled"]]
              /\ UNCHANGED call
    /\ UNCHANGED <<db, clock, modelsOnPath, last_insert_rowid, dbFaults>>

\* get_by_id (lines 74-89), then cancel lines 218-225: status != 'pending';
\* the loaded object is marked cancelled
cancel_get_by_id(p) ==
    /\ pc[p] = "cancel_get_by_id"
    /\ LET row == Reservation_get_by_id(call[p].id) IN
         IF row = NoRow
         THEN Finish(p, "False", "not_found")
         ELSE IF row.status # "pending"
         THEN Finish(p, "False", "not_pending")
         ELSE /\ Goto(p, "cancel_save")
              /\ loc' = [loc EXCEPT ![p].row = [row EXCEPT !.status = "cancelled"]]
              /\ UNCHANGED call
    /\ UNCHANGED <<db, clock, modelsOnPath, last_insert_rowid, dbFaults>>

\* cancel lines 227-231, Reservation.save (lines 273-281): UPDATE reservations
\* SET every column of the loaded object WHERE reservation_id = ?
cancel_save(p) ==
    /\ pc[p] = "cancel_save"
    /\ \E ok \in BOOLEAN :
         /\ execute_update(ok)
         /\ IF ok
            THEN /\ reservations' = [reservations EXCEPT ![call[p].id] = loc[p].row]
                 /\ Finish(p, "True", "cancelled")
            ELSE Finish(p, "False", "save") /\ UNCHANGED reservations
    /\ UNCHANGED <<books, users, lending, notifications, clock,
                   modelsOnPath, last_insert_rowid>>

\* Reservation.fulfill (reservations.py lines 199-214), on the reservation
\* loaded by Reservation.get_by_id.  No operation of the program calls it.
CallFulfill(p, r) ==
    /\ pc[p] = "idle"
    /\ pc' = [pc EXCEPT ![p] = "fulfill_get_by_id"]
    /\ call' = [call EXCEPT ![p] = [NoCall EXCEPT !.op = "fulfill", !.id = r]]
    /\ loc' = [loc EXCEPT ![p] = NoLoc]
    /\ UNCHANGED <<db, clock, modelsOnPath, last_insert_rowid, dbFaults, result>>

\* get_by_id (lines 74-89), then fulfill lines 201-208: status != 'pending';
\* the loaded object is marked fulfilled
fulfill_get_by_id(p) ==
    /\ pc[p] = "fulfill_get_by_id"
    /\ LET row == Reservation_get_by_id(call[p].id) IN
         IF row = NoRow
         THEN Finish(p, "False", "not_found")
         ELSE IF row.status # "pending"
         THEN Finish(p, "False", "not_pending")
         ELSE /\ Goto(p, "fulfill_save")
              /\ loc' = [loc EXCEPT ![p].row = [row EXCEPT !.status = "fulfilled"]]
              /\ UNCHANGED call
    /\ UNCHANGED <<db, clock, modelsOnPath, last_insert_rowid, dbFaults>>

\* fulfill lines 210-214, Reservation.save (lines 273-281)
fulfill_save(p) ==
    /\ pc[p] = "fulfill_save"
    /\ \E ok \in BOOLEAN :
         /\ execute_update(ok)
         /\ IF ok
            THEN /\ reservations' = [reservations EXCEPT ![call[p].id] = loc[p].row]
                 /\ Finish(p, "True", "fulfilled")
            ELSE Finish(p, "False", "save") /\ UNCHANGED reservations
    /\ UNCHANGED <<books, users, lending, notifications, clock,
                   modelsOnPath, last_insert_rowid>>

\* Reservation.notify_user (reservations.py lines 233-255), on the reservation
\* loaded by Reservation.get_by_id, with the default message.
CallNotify(p, r) ==
    /\ pc[p] = "idle"
    /\ pc' = [pc EXCEPT ![p] = "notify_get_by_id"]
    /\ call' = [call EXCEPT ![p] = [NoCall EXCEPT !.op = "notify_user", !.id = r]]
    /\ loc' = [loc EXCEPT ![p] = NoLoc]
    /\ UNCHANGED <<db, clock, modelsOnPath, last_insert_rowid, dbFaults, result>>

\* get_by_id (lines 74-89), then notify_user lines 235-241: the book is read
\* for its title only
notify_user_get_by_id(p) ==
    /\ pc[p] = "notify_get_by_id"
    /\ LET row == Reservation_get_by_id(call[p].id) IN
         IF row = NoRow
         THEN Finish(p, "False", "not_found")
         ELSE /\ Goto(p, "notify_insert")
              /\ loc' = [loc EXCEPT ![p].row = row]
              /\ UNCHANGED call
    /\ UNCHANGED <<db, clock, modelsOnPath, last_insert_rowid, dbFaults>>

\* lines 243-250: INSERT INTO notifications; the loaded object is marked
\* notification_sent
notify_user_insert(p) ==
    /\ pc[p] = "notify_insert"
    /\ \E ok \in BOOLEAN :
         /\ execute_update(ok)
         /\ last_insert(ok, Len(notifications) + 1)
         /\ IF ok
            THEN /\ notifications' =
                       Append(notifications, [user_id |-> loc[p].row.user_id,
                                              book_id |-> loc[p].row.book_id])
                 /\ loc' = [loc EXCEPT ![p].row.notification_sent = TRUE]
                 /\ Goto(p, "notify_save")
                 /\ UNCHANGED call
            ELSE Finish(p, "False", "insert") /\ UNCHANGED notifications
    /\ UNCHANGED <<books, users, lending, reservations, clock, modelsOnPath>>

\* lines 251-253, Reservation.save (lines 273-281): UPDATE reservations SET
\* every column of the loaded object; the result of save is ignored
notify_user_save(p) ==
    /\ pc[p] = "notify_save"
    /\ \E ok \in BOOLEAN :
         /\ execute_update(ok)
         /\ reservations' = IF ok
                            THEN [reservations EXCEPT ![call[p].id] = loc[p].row]
                            ELSE reservations
    /\ Finish(p, "True", "notified")
    /\ UNCHANGED <<books, users, lending, notifications, clock, modelsOnPath, last_insert_rowid>>

----------------------------------------------------------------------------
\* The state after the tables are created and the catalogue is entered
\* (library_cli.add_book lines 175-180: available_copies = total_copies).

Tables == [books |-> books, lending |-> lending,
           reservations |-> reservations, notifications |-> notifications]

InitDb(U) ==
    /\ books \in [BookIds -> {[total_copies |-> n, available_copies |-> n] :
                                n \in 1..MaxCopies}]
    /\ users \in {[u \in U |-> [is_active |-> a \/ \E v \in U : v > u]] :
                    a \in BOOLEAN}
    /\ lending = <<>>
    /\ reservations = <<>>
    /\ notifications = <<>>
    /\ clock = [instant |-> 0, day |-> 0]

InitProcs ==
    /\ pc = [p \in Procs |-> "idle"]
    /\ call = [p \in Procs |-> NoCall]
    /\ loc = [p \in Procs |-> NoLoc]
    /\ script = <<>>
    /\ snap = <<>>
    /\ result = <<>>

Init ==
    /\ InitDb(UserIds)
    /\ InitProcs
    /\ modelsOnPath \in BOOLEAN
    /\ last_insert_rowid = 0
    /\ dbFaults = 0

IssueStep(p) ==
    \/ issue_book_get_book(p)
    \/ issue_book_get_user(p)
    \/ issue_book_existing(p)
    \/ issue_book_save(p)
    \/ issue_book_last_insert_id(p)
    \/ issue_book_update_availability(p)

ReturnStep(p) ==
    \/ return_book_get_by_id(p)
    \/ return_book_save(p)
    \/ return_book_get_book(p)
    \/ return_book_update_availability(p)
    \/ process_next_reservation_select(p)
    \/ process_next_reservation_notify(p)

ReserveStep(p) ==
    \/ create_reservation_get_book(p)
    \/ create_reservation_get_user(p)
    \/ create_reservation_existing(p)
    \/ create_reservation_current_lending(p)
    \/ create_reservation_save(p)

CancelStep(p) ==
    \/ cancel_get_by_id(p)
    \/ cancel_save(p)

\* One statement of an operation in progress.
Step(p) == IssueStep(p) \/ ReturnStep(p) \/ ReserveStep(p) \/ CancelStep(p)

\* A caller enters an operation with any arguments, within the bounds.
Call(p, U, maxLoans, maxRes, maxNotes) ==
    \/ /\ Len(lending) + InFlight("issue_book") < maxLoans
       /\ \E b \in BookIds, u \in U : CallIssue(p, b, u)
    \/ /\ Len(notifications) < maxNotes
       /\ \E l \in 1..Len(lending) : CallReturn(p, l)
    \/ /\ Len(reservations) + InFlight("create_reservation") < maxRes
       /\ \E b \in BookIds, u \in U : CallReserve(p, b, u)
    \/ \E r \in 1..Len(reservations) : CallCancel(p, r)

\* Any number of callers, interleaved statement by statement.
Next ==
    \/ \E p \in Procs : /\ Call(p, UserIds, MaxLoans, MaxRes, MaxNotes)
                         /\ UNCHANGED <<script, snap>>
    \/ \E p \in Procs : Step(p)

Spec == Init /\ [][Next]_vars

----------------------------------------------------------------------------
\* Calls made one at a time: a call is made when no operation is in progress.

Quiet == \A q \in Procs : pc[q] = "idle"

SeqInit ==
    /\ InitDb(SeqUserIds)
    /\ InitProcs
    /\ modelsOnPath \in BOOLEAN
    /\ last_insert_rowid = 0
    /\ dbFaults = 0

SeqNext ==
    \/ /\ Quiet
       /\ Call(1, SeqUserIds, MaxLoans, SeqMaxRes, MaxNotes)
       /\ UNCHANGED <<script, snap>>
    \/ Step(1)

SeqSpec == SeqInit /\ [][SeqNext]_vars

----------------------------------------------------------------------------
\* A test driver: it makes up to ScriptLen calls, one at a time, and keeps
\* each call, the tables as they were when it made it, and its result.

TheCall(p) == [caller |-> p, op |-> call'[p].op, book_id |-> call'[p].book_id,
               user_id |-> call'[p].user_id, id |-> call'[p].id,
               loan_days |-> call'[p].loan_days,
               fine_amount |-> call'[p].fine_amount,
               change |-> call'[p].change,
               total_copies |-> call'[p].total_copies,
               available_copies |-> call'[p].available_copies,
               fine_per_day |-> 0, now |-> today]

FulfillStep(p) ==
    \/ fulfill_get_by_id(p)
    \/ fulfill_save(p)

ScriptNext ==
    \/ /\ Quiet
       /\ Len(script) < ScriptLen
       /\ \/ Call(1, UserIds, ScriptLen, ScriptLen, ScriptLen)
          \/ \E r \in 1..Len(reservations) : CallFulfill(1, r)
       /\ script' = Append(script, TheCall(1))
       /\ snap' = Append(snap, Tables)
    \/ Step(1)
    \/ FulfillStep(1)

ScriptSpec == Init /\ [][ScriptNext]_vars

\* The driver's thread runs each call it has made to its end.
FairScriptSpec == ScriptSpec /\ WF_vars(Step(1) \/ FulfillStep(1))

----------------------------------------------------------------------------
\* Two callers, each issuing the book once to a holder of its own, on a book
\* with one copy left: the other total_copies - 1 copies are lent to other
\* users.  The driver keeps the calls and their results.

RaceUsers == 1..(MaxCopies + 1)

RaceInit ==
    /\ \E n \in 1..MaxCopies :
         /\ books = [b \in BookIds |->
                        [total_copies |-> n, available_copies |-> 1]]
         /\ lending = [i \in 1..(n - 1) |->
                          NewLending(1, i + 2, 0, DefaultLoanDays)]
    /\ users = [u \in RaceUsers |-> [is_active |-> TRUE]]
    /\ reservations = <<>>
    /\ notifications = <<>>
    /\ clock = [instant |-> 0, day |-> 0]
    /\ InitProcs
    /\ modelsOnPath \in BOOLEAN
    /\ last_insert_rowid = 0
    /\ dbFaults = 0

RaceNext ==
    \/ \E p \in Procs, u \in {1, 2} :
         /\ \A k \in 1..Len(script) :
                script[k].caller # p /\ script[k].user_id # u
         /\ CallIssue(p, 1, u)
         /\ script' = Append(script, TheCall(p))
         /\ snap' = Append(snap, Tables)
    \/ \E p \in Procs : IssueStep(p)

RaceSpec == RaceInit /\ [][RaceNext]_vars

----------------------------------------------------------------------------
\* Callers that reserve, cancel, fulfill and notify, interleaved statement by
\* statement, on books that are lent out by issue_book.

NotifyStep(p) ==
    \/ notify_user_get_by_id(p)
    \/ notify_user_insert(p)
    \/ notify_user_save(p)

ResCall(p) ==
    \/ /\ Len(lending) + InFlight("issue_book") < MaxCopies
       /\ Quiet
       /\ \E b \in BookIds, u \in UserIds : CallIssue(p, b, u)
    \/ /\ Len(reservations) + InFlight("create_reservation") < MaxRes
       /\ \E b \in BookIds, u \in UserIds : CallReserve(p, b, u)
    \/ \E r \in 1..Len(reservations) : CallCancel(p, r)
    \/ \E r \in 1..Len(reservations) : CallFulfill(p, r)
    \/ /\ Len(notifications) + InFlight("notify_user") < MaxNotes
       /\ \E r \in 1..Len(reservations) : CallNotify(p, r)

ResNext ==
    \/ \E p \in Procs : ResCall(p) /\ UNCHANGED <<script, snap>>
    \/ \E p \in Procs : \/ IssueStep(p)
                         \/ ReserveStep(p)
                         \/ CancelStep(p)
                         \/ FulfillStep(p)
                         \/ NotifyStep(p)

ResSpec == Init /\ [][ResNext]_vars

----------------------------------------------------------------------------
\* Reservation.get_queue_position on reservation tables of every kind that
\* calls made one at a time leave behind: up to QueueLen reservations of two
\* books, made in the order of their dates, of every status, with at most one
\* pending reservation per user and book.  The one copy of each book is lent
\* to a user who reserves nothing.

QueueBookIds == 1..(Cardinality(BookIds) + 1)
QueueLender == Cardinality(SeqUserIds) + 1

QueueRows ==
    [book_id : QueueBookIds, user_id : SeqUserIds, reservation_date : 0..MaxTime,
     status : {"pending", "fulfilled", "cancelled"}, notification_sent : {FALSE}]

QueueTables ==
    {t \in UNION {[1..n -> QueueRows] : n \in 0..QueueLen} :
        /\ \A i, j \in DOMAIN t :
              i < j => t[i].reservation_date <= t[j].reservation_date
        /\ \A i, j \in DOMAIN t :
              ( /\ i # j
                /\ t[i].status = "pending" /\ t[j].status = "pending"
                /\ t[i].book_id = t[j].book_id ) => t[i].user_id # t[j].user_id}

QueueInit ==
    /\ books = [b \in QueueBookIds |-> [total_copies |-> 1, available_copies |-> 0]]
    /\ users = [u \in 1..QueueLender |-> [is_active |-> TRUE]]
    /\ lending = [b \in QueueBookIds |->
                     NewLending(b, QueueLender, 0, DefaultLoanDays)]
    /\ reservations \in QueueTables
    /\ notifications = <<>>
    /\ clock = [instant |-> MaxTime, day |-> 0]
    /\ InitProcs
    /\ modelsOnPath \in BOOLEAN
    /\ last_insert_rowid = 0
    /\ dbFaults = 0

\* One call of get_queue_position(book_id, user_id): a single SELECT.
Reservation_get_queue_position(p, b, u) ==
    /\ pc[p] = "idle"
    /\ \E pos \in get_queue_position(b, u) :
          result' = Append(result, [caller |-> p, ret |-> "int", value |-> pos,
                                    at |-> "position"])
    /\ script' = Append(script, [NoCall EXCEPT !.op = "get_queue_position",
                                               !.book_id = b, !.user_id = u])
    /\ snap' = Append(snap, Tables)
    /\ UNCHANGED <<db, clock, modelsOnPath, last_insert_rowid, dbFaults, pc, call, loc>>

\* The one question of a behaviour.
QueuePosition(p, b, u) ==
    script = <<>> /\ Reservation_get_queue_position(p, b, u)

QueueNext == \E b \in QueueBookIds, u \in SeqUserIds : QueuePosition(1, b, u)

QueueSpec == QueueInit /\ [][QueueNext]_vars

----------------------------------------------------------------------------
\* The test driver with arguments of every kind: ids of rows that exist and
\* ids of rows that do not.

ArgBookIds == 1..(Cardinality(BookIds) + 1)
ArgUserIds == 1..(Cardinality(UserIds) + 1)

ArgCall(p) ==
    \/ \E b \in ArgBookIds, u \in ArgUserIds : CallIssue(p, b, u)
    \/ \E l \in 1..(Len(lending) + 1) : CallReturn(p, l)
    \/ \E b \in ArgBookIds, u \in ArgUserIds : CallReserve(p, b, u)
    \/ \E r \in 1..(Len(reservations) + 1) : CallCancel(p, r)
    \/ \E r \in 1..(Len(reservations) + 1) : CallFulfill(p, r)

ArgNext ==
    \/ /\ Quiet
       /\ Len(script) < ArgScriptLen
       /\ ArgCall(1)
       /\ script' = Append(script, TheCall(1))
       /\ snap' = Append(snap, Tables)
    \/ Step(1)
    \/ FulfillStep(1)

ArgSpec == Init /\ [][ArgNext]_vars

----------------------------------------------------------------------------
\* The test driver on a database whose writes may fail: execute_update
\* returns False for up to MaxFaults statements, at any place.

FaultInit ==
    /\ InitDb(UserIds)
    /\ InitProcs
    /\ modelsOnPath \in BOOLEAN
    /\ last_insert_rowid = 0
    /\ dbFaults \in 0..MaxFaults

FaultNext ==
    \/ /\ Quiet
       /\ Len(script) < FaultScriptLen
       /\ Call(1, UserIds, FaultScriptLen, FaultScriptLen, FaultScriptLen)
       /\ script' = Append(script, TheCall(1))
       /\ snap' = Append(snap, Tables)
    \/ Step(1)
    \/ issue_book_rollback(1)

FaultSpec == FaultInit /\ [][FaultNext]_vars

----------------------------------------------------------------------------
\* Overdue loans and fines (Lending.is_overdue, days_overdue, calculate_fine),
\* in whole days.

is_overdue(loan, now_day) ==
    IF loan.status # "active" THEN FALSE ELSE now_day > loan.due_date

days_overdue_of_any_status(loan, now_day) ==
    IF now_day > loan.due_date THEN now_day - loan.due_date ELSE 0

days_overdue(loan, now_day) ==
    IF ~is_overdue(loan, now_day) THEN 0 ELSE now_day - loan.due_date

calculate_fine(loan, now_day, fine_per_day) ==
    LET days == days_overdue(loan, now_day)
    IN  IF days > 0 THEN days * fine_per_day ELSE 0

\* A question asked of the lending Lending.get_by_id(l) returns, logged with
\* the day it is asked on; a number answered is logged as the value.
AskLending(p, op, l, fine_per_day, ret, value) ==
    /\ pc[p] = "idle"
    /\ Lending_get_by_id(l) # NoRow
    /\ script' = Append(script, [caller |-> p, op |-> op, book_id |-> 0,
                                 user_id |-> 0, id |-> l, loan_days |-> 0,
                                 fine_amount |-> 0, change |-> 0,
                                 fine_per_day |-> fine_per_day, now |-> today])
    /\ snap' = Append(snap, Tables)
    /\ result' = Append(result, [caller |-> p, ret |-> ret, value |-> value,
                                 at |-> op])
    /\ UNCHANGED <<db, clock, modelsOnPath, last_insert_rowid, dbFaults, pc, call, loc>>

Lending_is_overdue(p, l) ==
    AskLending(p, "is_overdue", l, 0,
               IF is_overdue(Lending_get_by_id(l), today) THEN "True" ELSE "False",
               0)

Lending_days_overdue(p, l) ==
    AskLending(p, "days_overdue", l, 0, "int",
               days_overdue(Lending_get_by_id(l), today))

Lending_calculate_fine(p, l, fine_per_day) ==
    AskLending(p, "calculate_fine", l, fine_per_day, "float",
               calculate_fine(Lending_get_by_id(l), today, fine_per_day))

\* A day passes.
Tick ==
    /\ clock.day < MaxDay
    /\ clock' = [clock EXCEPT !.day = @ + 1]
    /\ UNCHANGED <<db, modelsOnPath, last_insert_rowid, dbFaults, pc, call, loc, script, snap, result>>

\* One caller lends, reserves, returns (with and without a fine_amount) and
\* asks about fines, one call at a time, while days pass.
DateNext ==
    \/ /\ Quiet
       /\ Len(script) < DateScriptLen
       /\ \/ \E b \in BookIds, u \in UserIds, days \in 1..MaxLoanDays :
                CallIssueFor(1, b, u, days)
          \/ \E l \in 1..Len(lending), fine \in 0..MaxFine :
                CallReturnFine(1, l, fine)
          \/ \E b \in BookIds, u \in UserIds : CallReserve(1, b, u)
       /\ script' = Append(script, TheCall(1))
       /\ snap' = Append(snap, Tables)
    \/ /\ Len(script) < DateScriptLen
       /\ \E l \in 1..Len(lending) :
             \/ Lending_is_overdue(1, l)
             \/ Lending_days_overdue(1, l)
             \/ \E rate \in 1..MaxRate : Lending_calculate_fine(1, l, rate)
    \/ IssueStep(1)
    \/ ReturnStep(1)
    \/ ReserveStep(1)
    \/ Tick

DateSpec == Init /\ [][DateNext]_vars

----------------------------------------------------------------------------
\* Book.update_availability called on its own: the caller loads the book with
\* Book.get_by_id and calls update_availability(change) on the object.

CallAdjust(p, b, change) ==
    /\ pc[p] = "idle"
    /\ pc' = [pc EXCEPT ![p] = "adjust_get_by_id"]
    /\ call' = [call EXCEPT ![p] = [NoCall EXCEPT !.op = "update_availability",
                                                  !.book_id = b,
                                                  !.change = change]]
    /\ loc' = [loc EXCEPT ![p] = NoLoc]
    /\ UNCHANGED <<db, clock, modelsOnPath, last_insert_rowid, dbFaults, result>>

\* book = Book.get_by_id(book_id)
update_availability_get_by_id(p) ==
    /\ pc[p] = "adjust_get_by_id"
    /\ LET book == Book_get_by_id(call[p].book_id)
       IN  IF book = NoRow
           THEN Finish(p, "None", "book_not_found")
           ELSE /\ Goto(p, "adjust_update")
                /\ loc' = [loc EXCEPT ![p].book = book]
                /\ UNCHANGED call
    /\ UNCHANGED <<db, clock, modelsOnPath, last_insert_rowid, dbFaults>>

\* books.py lines 223-242: the two limits are tested on the loaded object,
\* then UPDATE books SET available_copies = new_available
update_availability(p) ==
    /\ pc[p] = "adjust_update"
    /\ IF ~update_availability_allowed(loc[p].book, call[p].change)
       THEN Finish(p, "False", "refused") /\ UNCHANGED <<books, dbFaults>>
       ELSE \E ok \in BOOLEAN :
              /\ execute_update(ok)
              /\ IF ok
                 THEN /\ books' = [b \in DOMAIN books |->
                                     IF b = call[p].book_id
                                     THEN [books[b] EXCEPT !.available_copies =
                                              new_available(loc[p].book,
                                                            call[p].change)]
                                     ELSE books[b]]
                      /\ Finish(p, "True", "adjusted")
                 ELSE Finish(p, "False", "update_failed") /\ UNCHANGED books
    /\ UNCHANGED <<users, lending, reservations, notifications, clock,
                   modelsOnPath, last_insert_rowid>>

AdjustStep(p) == update_availability_get_by_id(p) \/ update_availability(p)

\* A book of n copies of which some are lent, each to another user.
AdjustInit ==
    /\ \E n \in 1..MaxCopies, a \in 0..MaxCopies :
         /\ a <= n
         /\ books = [b \in BookIds |->
                        [total_copies |-> n, available_copies |-> a]]
         /\ lending = [i \in 1..(n - a) |->
                          NewLending(1, i, 0, DefaultLoanDays)]
    /\ users = [u \in RaceUsers |-> [is_active |-> TRUE]]
    /\ reservations = <<>>
    /\ notifications = <<>>
    /\ clock = [instant |-> 0, day |-> 0]
    /\ InitProcs
    /\ modelsOnPath \in BOOLEAN
    /\ last_insert_rowid = 0
    /\ dbFaults = 0

\* One caller, one call at a time.
AdjustSeqNext ==
    \/ /\ Quiet
       /\ Len(script) < AdjustScriptLen
       /\ \E b \in BookIds, change \in {1, 0 - 1} : CallAdjust(1, b, change)
       /\ script' = Append(script, TheCall(1))
       /\ snap' = Append(snap, Tables)
    \/ AdjustStep(1)

AdjustSeqSpec == AdjustInit /\ [][AdjustSeqNext]_vars

\* Two callers, one call each, interleaved statement by statement.
AdjustNext ==
    \/ \E p \in Procs, b \in BookIds, change \in {1, 0 - 1} :
         /\ \A k \in 1..Len(script) : script[k].caller # p
         /\ CallAdjust(p, b, change)
         /\ script' = Append(script, TheCall(p))
         /\ snap' = Append(snap, Tables)
    \/ \E p \in Procs : AdjustStep(p)

AdjustSpec == AdjustInit /\ [][AdjustNext]_vars

----------------------------------------------------------------------------
\* return_book() of library_cli.py, the return the command line offers. What
\* it prints is its outcome: "True" for "Book returned successfully", "False"
\* for any of the other messages.

CallCliReturn(p, l) ==
    /\ pc[p] = "idle"
    /\ pc' = [pc EXCEPT ![p] = "cli_return_get_by_id"]
    /\ call' = [call EXCEPT ![p] = [NoCall EXCEPT !.op = "cli_return_book",
                                                  !.id = l]]
    /\ loc' = [loc EXCEPT ![p] = NoLoc]
    /\ UNCHANGED <<db, clock, modelsOnPath, last_insert_rowid, dbFaults, result>>

\* lines 440-451: lending = Lending.get_by_id(lending_id); not found or not
\* active; the loaded object gets return_date = datetime.now() and status
\* "returned"
cli_return_book_get_by_id(p) ==
    /\ pc[p] = "cli_return_get_by_id"
    /\ LET row == Lending_get_by_id(call[p].id) IN
         IF row = NoRow
         THEN Finish(p, "False", "not_found")
         ELSE IF row.status # "active"
         THEN Finish(p, "False", "not_active")
         ELSE /\ Goto(p, "cli_return_save")
              /\ loc' = [loc EXCEPT ![p].row =
                            [row EXCEPT !.return_date = today,
                                        !.status = "returned"]]
              /\ UNCHANGED call
    /\ UNCHANGED <<db, clock, modelsOnPath, last_insert_rowid, dbFaults>>

\* line 453: if lending.save()
cli_return_book_save(p) ==
    /\ pc[p] = "cli_return_save"
    /\ \E ok \in BOOLEAN :
         /\ execute_update(ok)
         /\ IF ok
            THEN /\ lending' = [l \in 1..Len(lending) |->
                                  IF l = call[p].id /\ lending[l] # NoRow
                                  THEN loc[p].row ELSE lending[l]]
                 /\ Goto(p, "cli_return_get_book")
                 /\ UNCHANGED <<call, loc>>
            ELSE Finish(p, "False", "save") /\ UNCHANGED lending
    /\ UNCHANGED <<books, users, reservations, notifications, clock,
                   modelsOnPath, last_insert_rowid>>

\* lines 455-459: book = Book.get_by_id(lending.book_id); `if book`; the
\* checks of update_availability(1) on the object just loaded; what
\* update_availability returns is not looked at
cli_return_book_get_book(p) ==
    /\ pc[p] = "cli_return_get_book"
    /\ LET book == Book_get_by_id(loc[p].row.book_id) IN
         IF book = NoRow
         THEN Finish(p, "True", "no_book")
         ELSE IF ~update_availability_allowed(book, 1)
         THEN Finish(p, "True", "not_allowed")
         ELSE /\ Goto(p, "cli_return_update")
              /\ loc' = [loc EXCEPT ![p].book = book]
              /\ UNCHANGED call
    /\ UNCHANGED <<db, clock, modelsOnPath, last_insert_rowid, dbFaults>>

\* line 457 (books.py lines 233-242), lines 459-466: the UPDATE of books; the
\* success message; is_overdue() of the object is False, its status being
\* "returned", so nothing more is printed
cli_return_book_update_availability(p) ==
    /\ pc[p] = "cli_return_update"
    /\ \E ok \in BOOLEAN :
         /\ execute_update(ok)
         /\ books' = IF ok
                     THEN [b \in DOMAIN books |->
                             IF b = loc[p].row.book_id
                             THEN [books[b] EXCEPT !.available_copies =
                                      new_available(loc[p].book, 1)]
                             ELSE books[b]]
                     ELSE books
    /\ Finish(p, "True", "returned")
    /\ UNCHANGED <<users, lending, reservations, notifications, clock,
                   modelsOnPath, last_insert_rowid>>

CliReturnStep(p) ==
    \/ cli_return_book_get_by_id(p)
    \/ cli_return_book_save(p)
    \/ cli_return_book_get_book(p)
    \/ cli_return_book_update_availability(p)

\* One caller uses every operation and both returns, one call at a time.
PathNext ==
    \/ /\ Quiet
       /\ Len(script) < PathScriptLen
       /\ \/ Call(1, UserIds, PathScriptLen, PathScriptLen, PathScriptLen)
          \/ \E l \in 1..Len(lending) : CallCliReturn(1, l)
       /\ script' = Append(script, TheCall(1))
       /\ snap' = Append(snap, Tables)
    \/ Step(1)
    \/ CliReturnStep(1)

PathSpec == Init /\ [][PathNext]_vars

----------------------------------------------------------------------------
\* Two callers return the same lending.

\* A book of n copies of which m are lent, each to another user, lending 1
\* among them; when no copy is left another user may have reserved the book.
ReturnRaceInit ==
    /\ \E n \in 1..MaxCopies, m \in 1..MaxCopies :
         /\ m <= n
         /\ books = [b \in BookIds |->
                        [total_copies |-> n, available_copies |-> n - m]]
         /\ lending = [i \in 1..m |-> NewLending(1, i, 0, DefaultLoanDays)]
         /\ \/ reservations = <<>>
            \/ /\ m = n
               /\ reservations = <<[book_id |-> 1, user_id |-> m + 1,
                                     reservation_date |-> 0,
                                     status |-> "pending",
                                     notification_sent |-> FALSE]>>
    /\ users = [u \in RaceUsers |-> [is_active |-> TRUE]]
    /\ notifications = <<>>
    /\ clock = [instant |-> 0, day |-> 0]
    /\ InitProcs
    /\ modelsOnPath \in BOOLEAN
    /\ last_insert_rowid = 0
    /\ dbFaults = 0

ReturnRaceNext ==
    \/ \E p \in Procs :
         /\ \A k \in 1..Len(script) : script[k].caller # p
         /\ CallReturn(p, 1)
         /\ script' = Append(script, TheCall(p))
         /\ snap' = Append(snap, Tables)
    \/ \E p \in Procs : ReturnStep(p)

ReturnRaceSpec == ReturnRaceInit /\ [][ReturnRaceNext]_vars

----------------------------------------------------------------------------
\* A queue of two: the only copy of book 1 is lent, and users 1 and 2 have
\* reserved it in that order, at the same reading of the clock or not.

TieInit ==
    /\ books = [b \in BookIds |-> [total_copies |-> 1, available_copies |-> 0]]
    /\ users = [u \in 1..QueueLender |-> [is_active |-> TRUE]]
    /\ lending = <<NewLending(1, QueueLender, 0, DefaultLoanDays)>>
    /\ \E d1 \in 0..MaxTime, d2 \in 0..MaxTime :
         /\ d1 <= d2
         /\ reservations =
               <<[book_id |-> 1, user_id |-> 1, reservation_date |-> d1,
                  status |-> "pending", notification_sent |-> FALSE],
                 [book_id |-> 1, user_id |-> 2, reservation_date |-> d2,
                  status |-> "pending", notification_sent |-> FALSE]>>
    /\ notifications = <<>>
    /\ clock = [instant |-> MaxTime, day |-> 0]
    /\ InitProcs
    /\ modelsOnPath \in BOOLEAN
    /\ last_insert_rowid = 0
    /\ dbFaults = 0

\* One caller asks for queue positions and returns the copy.
TieNext ==
    \/ /\ Quiet
       /\ Len(script) < TieScriptLen
       /\ \E b \in BookIds, u \in UserIds :
             Reservation_get_queue_position(1, b, u)
    \/ /\ Quiet
       /\ Len(script) < TieScriptLen
       /\ \E l \in 1..Len(lending) : CallReturn(1, l)
       /\ script' = Append(script, TheCall(1))
       /\ snap' = Append(snap, Tables)
    \/ ReturnStep(1)

TieSpec == TieInit /\ [][TieNext]_vars

----------------------------------------------------------------------------
\* The history of lendings: two callers issue and return, with and without a
\* fine_amount, on a database some of whose writes fail.

\* A book of n copies of which m are lent, each to another user; when no copy
\* is left another user may have reserved the book.
HistoryInit ==
    /\ \E n \in 1..MaxCopies, m \in 0..MaxCopies :
         /\ m <= n
         /\ books = [b \in BookIds |->
                        [total_copies |-> n, available_copies |-> n - m]]
         /\ lending = [i \in 1..m |-> NewLending(1, i, 0, DefaultLoanDays)]
         /\ \/ reservations = <<>>
            \/ /\ m = n
               /\ reservations = <<[book_id |-> 1, user_id |-> m + 1,
                                     reservation_date |-> 0,
                                     status |-> "pending",
                                     notification_sent |-> FALSE]>>
    /\ users = [u \in RaceUsers |-> [is_active |-> TRUE]]
    /\ notifications = <<>>
    /\ clock = [instant |-> 0, day |-> 0]
    /\ InitProcs
    /\ modelsOnPath \in BOOLEAN
    /\ last_insert_rowid = 0
    /\ dbFaults \in 0..MaxFaults

HistoryNext ==
    \/ \E p \in Procs :
         /\ Len(script) < HistoryCalls
         /\ \/ \E b \in BookIds, u \in RaceUsers : CallIssue(p, b, u)
            \/ \E l \in 1..Len(lending), fine \in 0..MaxFine :
                  CallReturnFine(p, l, fine)
         /\ script' = Append(script, TheCall(p))
         /\ snap' = Append(snap, Tables)
    \/ \E p \in Procs : IssueStep(p)
    \/ \E p \in Procs : ReturnStep(p)
    \/ \E p \in Procs : issue_book_rollback(p)

HistorySpec == HistoryInit /\ [][HistoryNext]_vars

----------------------------------------------------------------------------
\* Saving an edited catalogue record: the book is loaded, the form of
\* BookDetailsDialog puts its total_copies and available_copies into the
\* object, and Book.save writes the object.

CallSaveBook(p, b, total, available) ==
    /\ pc[p] = "idle"
    /\ pc' = [pc EXCEPT ![p] = "save_book_get_by_id"]
    /\ call' = [call EXCEPT ![p] = [NoCall EXCEPT !.op = "save_book",
                                                  !.book_id = b,
                                                  !.total_copies = total,
                                                  !.available_copies = available]]
    /\ loc' = [loc EXCEPT ![p] = NoLoc]
    /\ UNCHANGED <<db, clock, modelsOnPath, last_insert_rowid, dbFaults, result>>

\* Book.get_by_id; book_details.py lines 191-206 (_validate_inputs) and
\* 248-254 (_save_book): the numbers of the form go into the object
save_book_get_by_id(p) ==
    /\ pc[p] = "save_book_get_by_id"
    /\ LET book == Book_get_by_id(call[p].book_id)
       IN  IF book = NoRow
           THEN Finish(p, "None", "book_not_found")
           ELSE IF \/ call[p].total_copies < 1
                   \/ call[p].available_copies < 0
                   \/ call[p].available_copies > call[p].total_copies
           THEN Finish(p, "False", "form")
           ELSE /\ Goto(p, "save_book_update")
                /\ loc' = [loc EXCEPT ![p].book =
                              [book EXCEPT
                                 !.total_copies = call[p].total_copies,
                                 !.available_copies = call[p].available_copies]]
                /\ UNCHANGED call
    /\ UNCHANGED <<db, clock, modelsOnPath, last_insert_rowid, dbFaults>>

\* Book.save of an existing book: _validate (books.py lines 293-300), then
\* UPDATE books SET ..., total_copies = ?, available_copies = ?, ...
Book_save(p) ==
    /\ pc[p] = "save_book_update"
    /\ IF \/ loc[p].book.total_copies <= 0
          \/ loc[p].book.available_copies < 0
          \/ loc[p].book.available_copies > loc[p].book.total_copies
       THEN Finish(p, "False", "validation") /\ UNCHANGED <<books, dbFaults>>
       ELSE \E ok \in BOOLEAN :
              /\ execute_update(ok)
              /\ IF ok
                 THEN /\ books' = [b \in DOMAIN books |->
                                     IF b = call[p].book_id /\ books[b] # NoRow
                                     THEN loc[p].book ELSE books[b]]
                      /\ Finish(p, "True", "saved")
                 ELSE Finish(p, "False", "update_failed") /\ UNCHANGED books
    /\ UNCHANGED <<users, lending, reservations, notifications, clock,
                   modelsOnPath, last_insert_rowid>>

SaveBookStep(p) == save_book_get_by_id(p) \/ Book_save(p)

\* One caller lends, returns, reserves, cancels and edits the catalogue, one
\* call at a time.
CatalogNext ==
    \/ /\ Quiet
       /\ Len(script) < CatalogScriptLen
       /\ \/ Call(1, UserIds, CatalogScriptLen, CatalogScriptLen,
                   CatalogScriptLen)
          \/ \E b \in BookIds, total \in 0..MaxCopies,
                available \in 0..MaxCopies :
                CallSaveBook(1, b, total, available)
       /\ script' = Append(script, TheCall(1))
       /\ snap' = Append(snap, Tables)
    \/ Step(1)
    \/ SaveBookStep(1)

CatalogSpec == Init /\ [][CatalogNext]_vars

----------------------------------------------------------------------------
\* Two books and two callers on the one connection of db_manager: the first
\* book's only copy is lent, the second book's copy is on the shelf, and the
\* callers issue, return, reserve and cancel on either book while some
\* writes fail.

ItemsCalls == 2

ItemBookIds == 1..(Cardinality(BookIds) + 1)

ItemsInit ==
    /\ books = [b \in ItemBookIds |->
                   [total_copies |-> 1,
                    available_copies |-> IF b = 1 THEN 0 ELSE 1]]
    /\ users = [u \in UserIds |-> [is_active |-> TRUE]]
    /\ lending = <<NewLending(1, 1, 0, DefaultLoanDays)>>
    /\ reservations = <<>>
    /\ notifications = <<>>
    /\ clock = [instant |-> 0, day |-> 0]
    /\ InitProcs
    /\ modelsOnPath \in BOOLEAN
    /\ last_insert_rowid = 0
    /\ dbFaults \in 0..1

ItemsNext ==
    \/ \E p \in Procs :
         /\ Len(script) < ItemsCalls
         /\ \/ \E b \in ItemBookIds, u \in UserIds : CallIssue(p, b, u)
            \/ \E l \in 1..Len(lending) : CallReturn(p, l)
            \/ \E b \in ItemBookIds, u \in UserIds : CallReserve(p, b, u)
            \/ \E r \in 1..Len(reservations) : CallCancel(p, r)
         /\ script' = Append(script, TheCall(p))
         /\ snap' = Append(snap, Tables)
    \/ \E p \in Procs : Step(p)
    \/ \E p \in Procs : issue_book_rollback(p)

ItemsSpec == ItemsInit /\ [][ItemsNext]_vars

----------------------------------------------------------------------------
\* issue_book() of library_cli.py, the issue the command line offers, with
\* the Book ID, User ID and loan period typed in. What it prints is its
\* outcome: "issued" for "Book ... issued to ...", "None" for the others.

CliIssueScriptLen == 3

CallCliIssue(p, b, u, days) ==
    /\ pc[p] = "idle"
    /\ pc' = [pc EXCEPT ![p] = "cli_issue_get_book"]
    /\ call' = [call EXCEPT ![p] = [NoCall EXCEPT !.op = "cli_issue_book",
                                                  !.book_id = b, !.user_id = u,
                                                  !.loan_days = days]]
    /\ loc' = [loc EXCEPT ![p] = NoLoc]
    /\ UNCHANGED <<db, clock, modelsOnPath, last_insert_rowid, dbFaults, result>>

\* lines 361-368: book = Book.get_by_id(book_id); not book; not
\* book.is_available()
cli_issue_book_get_book(p) ==
    /\ pc[p] = "cli_issue_get_book"
    /\ LET book == Book_get_by_id(call[p].book_id) IN
         IF book = NoRow \/ ~is_available(book)
         THEN Finish(p, "None", "not_available")
         ELSE /\ Goto(p, "cli_issue_get_user")
              /\ loc' = [loc EXCEPT ![p].book = book]
              /\ UNCHANGED call
    /\ UNCHANGED <<db, clock, modelsOnPath, last_insert_rowid, dbFaults>>

\* lines 382-410: user = User.get_by_id(user_id); not user; not
\* user.is_active; days < 1; the Lending object is built with
\* issue_date = datetime.now()
cli_issue_book_get_user(p) ==
    /\ pc[p] = "cli_issue_get_user"
    /\ LET user == User_get_by_id(call[p].user_id) IN
         IF user = NoRow \/ ~user.is_active
         THEN Finish(p, "None", "user")
         ELSE IF call[p].loan_days < 1
         THEN Finish(p, "None", "days")
         ELSE /\ Goto(p, "cli_issue_save")
              /\ loc' = [loc EXCEPT ![p].row =
                            NewLending(call[p].book_id, call[p].user_id,
                                       today, call[p].loan_days)]
              /\ UNCHANGED call
    /\ UNCHANGED <<db, clock, modelsOnPath, last_insert_rowid, dbFaults>>

\* line 413, Lending.save (lines 297-306): INSERT INTO lending; the
\* lending_id that save reads back is not used by the command
cli_issue_book_save(p) ==
    /\ pc[p] = "cli_issue_save"
    /\ \E ok \in BOOLEAN :
         /\ execute_update(ok)
         /\ last_insert(ok, Len(lending) + 1)
         /\ IF ok
            THEN /\ lending' = Append(lending, loc[p].row)
                 /\ Goto(p, "cli_issue_update")
                 /\ UNCHANGED <<call, loc>>
            ELSE Finish(p, "None", "save") /\ UNCHANGED lending
    /\ UNCHANGED <<books, users, reservations, notifications, clock,
                   modelsOnPath>>

\* lines 415-417: book.update_availability(-1) on the Book object loaded at
\* line 361; its result is not looked at
cli_issue_book_update_availability(p) ==
    /\ pc[p] = "cli_issue_update"
    /\ IF ~update_availability_allowed(loc[p].book, -1)
       THEN UNCHANGED <<books, dbFaults>>
       ELSE \E ok \in BOOLEAN :
              /\ execute_update(ok)
              /\ books' = IF ok
                          THEN [b \in DOMAIN books |->
                                  IF b = call[p].book_id
                                  THEN [books[b] EXCEPT !.available_copies =
                                           new_available(loc[p].book, -1)]
                                  ELSE books[b]]
                          ELSE books
    /\ Finish(p, "issued", "issued")
    /\ UNCHANGED <<users, lending, reservations, notifications, clock,
                   modelsOnPath, last_insert_rowid>>

CliIssueStep(p) ==
    \/ cli_issue_book_get_book(p)
    \/ cli_issue_book_get_user(p)
    \/ cli_issue_book_save(p)
    \/ cli_issue_book_update_availability(p)

\* A driver that issues through either path, one call at a time, on a
\* database some of whose writes fail.
CliIssueNext ==
    \/ /\ Quiet
       /\ Len(script) < CliIssueScriptLen
       /\ \/ \E b \in BookIds, u \in UserIds : CallIssue(1, b, u)
          \/ \E b \in BookIds, u \in UserIds, days \in {0, DefaultLoanDays} :
                CallCliIssue(1, b, u, days)
       /\ script' = Append(script, TheCall(1))
       /\ snap' = Append(snap, Tables)
    \/ IssueStep(1)
    \/ issue_book_rollback(1)
    \/ CliIssueStep(1)

CliIssueSpec == FaultInit /\ [][CliIssueNext]_vars

----------------------------------------------------------------------------
\* The copy that keeps coming back: the only copy of book 1 is lent to a user
\* who returns it and borrows it again, while users 1 and 2 wait with pending
\* reservations, user 1's the older. Neither of them issues or cancels. The
\* name models resolves, so that every return reaches the notification.

StarveLoans == 3

StarveInit ==
    /\ books = [b \in BookIds |-> [total_copies |-> 1, available_copies |-> 0]]
    /\ users = [u \in 1..QueueLender |-> [is_active |-> TRUE]]
    /\ lending = <<NewLending(1, QueueLender, 0, DefaultLoanDays)>>
    /\ reservations =
          <<[book_id |-> 1, user_id |-> 1, reservation_date |-> 0,
             status |-> "pending", notification_sent |-> FALSE],
            [book_id |-> 1, user_id |-> 2, reservation_date |-> MaxTime,
             status |-> "pending", notification_sent |-> FALSE]>>
    /\ notifications = <<>>
    /\ clock = [instant |-> MaxTime, day |-> 0]
    /\ InitProcs
    /\ modelsOnPath = TRUE
    /\ last_insert_rowid = 0
    /\ dbFaults = 0

StarveNext ==
    \/ /\ Quiet
       /\ Len(lending) < StarveLoans
       /\ is_available(books[1])
       /\ CallIssue(1, 1, QueueLender)
       /\ UNCHANGED <<script, snap>>
    \/ /\ Quiet
       /\ \E l \in ActiveLendings(1, QueueLender), fine \in 0..MaxFine :
             CallReturnFine(1, l, fine)
       /\ UNCHANGED <<script, snap>>
    \/ IssueStep(1)
    \/ ReturnStep(1)

StarveSpec == StarveInit /\ [][StarveNext]_vars

\* The borrower goes on returning and borrowing, and each call runs to its
\* end.
FairStarveSpec == StarveSpec /\ WF_vars(StarveNext)

----------------------------------------------------------------------------
\* Book.delete(), on a Book object just loaded with Book.get_by_id. The
\* calls are made one at a time, so the statements of delete are one step.

DeleteScriptLen == 4

CallDeleteBook(p, b) ==
    /\ pc[p] = "idle"
    /\ pc' = [pc EXCEPT ![p] = "delete_book_get_by_id"]
    /\ call' = [call EXCEPT ![p] = [NoCall EXCEPT !.op = "delete_book",
                                                  !.book_id = b]]
    /\ loc' = [loc EXCEPT ![p] = NoLoc]
    /\ UNCHANGED <<db, clock, modelsOnPath, last_insert_rowid, dbFaults, result>>

\* Book.get_by_id(book_id): there is no object to call delete on
delete_book_get_by_id(p) ==
    /\ pc[p] = "delete_book_get_by_id"
    /\ LET book == Book_get_by_id(call[p].book_id) IN
         IF book = NoRow
         THEN Finish(p, "False", "not_found")
         ELSE /\ Goto(p, "delete_book")
              /\ loc' = [loc EXCEPT ![p].book = book]
              /\ UNCHANGED call
    /\ UNCHANGED <<db, clock, modelsOnPath, last_insert_rowid, dbFaults>>

\* lines 190-207: SELECT COUNT(*) of the book's active lendings, and of its
\* pending reservations
Book_delete_refused(b) ==
    \/ \E l \in 1..Len(lending) : /\ lending[l] # NoRow
                                   /\ lending[l].book_id = b
                                   /\ lending[l].status = "active"
    \/ PendingOfBook(b) # {}

\* PRAGMA foreign_keys = ON, and FOREIGN KEY (book_id) REFERENCES books
\* (book_id) in lending and reservations, with no ON DELETE: the DELETE of a
\* book some row refers to raises
foreign_keys_refuse_delete(b) ==
    \/ \E l \in 1..Len(lending) : lending[l] # NoRow /\ lending[l].book_id = b
    \/ \E r \in 1..Len(reservations) : reservations[r].book_id = b

\* The same method with neither the two counts nor the foreign keys.
Book_delete_unrefused(p) ==
    /\ pc[p] = "delete_book"
    /\ \E ok \in BOOLEAN :
         /\ execute_update(ok)
         /\ books' = IF ok
                     THEN [b \in DOMAIN books \ {call[p].book_id} |-> books[b]]
                     ELSE books
         /\ Finish(p, IF ok THEN "True" ELSE "False", "delete")
    /\ UNCHANGED <<users, lending, reservations, notifications, clock,
                   modelsOnPath, last_insert_rowid>>

\* Book.delete lines 184-216: the two counts, then DELETE FROM books
Book_delete(p) ==
    /\ pc[p] = "delete_book"
    /\ IF Book_delete_refused(call[p].book_id)
       THEN Finish(p, "False", "refused") /\ UNCHANGED <<books, dbFaults>>
       ELSE IF foreign_keys_refuse_delete(call[p].book_id)
       THEN Finish(p, "False", "foreign_key") /\ UNCHANGED <<books, dbFaults>>
       ELSE \E ok \in BOOLEAN :
              /\ execute_update(ok)
              /\ books' = IF ok
                          THEN [b \in DOMAIN books \ {call[p].book_id} |->
                                  books[b]]
                          ELSE books
              /\ Finish(p, IF ok THEN "True" ELSE "False", "delete")
    /\ UNCHANGED <<users, lending, reservations, notifications, clock,
                   modelsOnPath, last_insert_rowid>>

DeleteBookStep(p) ==
    \/ delete_book_get_by_id(p)
    \/ Book_delete(p)

\* A driver that issues, returns, reserves, cancels and deletes books, one
\* call at a time, on a database some of whose writes fail.
DeleteNext ==
    \/ /\ Quiet
       /\ Len(script) < DeleteScriptLen
       /\ \/ Call(1, UserIds, DeleteScriptLen, DeleteScriptLen, DeleteScriptLen)
          \/ \E b \in BookIds : CallDeleteBook(1, b)
       /\ script' = Append(script, TheCall(1))
       /\ snap' = Append(snap, Tables)
    \/ Step(1)
    \/ issue_book_rollback(1)
    \/ DeleteBookStep(1)

DeleteSpec == FaultInit /\ [][DeleteNext]_vars

----------------------------------------------------------------------------
\* User.delete(), the deactivation of a user, on a User object just loaded
\* with User.get_by_id.

DeactivateScriptLen == 4

CallDeleteUser(p, u) ==
    /\ pc[p] = "idle"
    /\ pc' = [pc EXCEPT ![p] = "delete_user_get_by_id"]
    /\ call' = [call EXCEPT ![p] = [NoCall EXCEPT !.op = "delete_user",
                                                  !.user_id = u]]
    /\ loc' = [loc EXCEPT ![p] = NoLoc]
    /\ UNCHANGED <<db, clock, modelsOnPath, last_insert_rowid, dbFaults, result>>

\* User.get_by_id(user_id): there is no object to call delete on
delete_user_get_by_id(p) ==
    /\ pc[p] = "delete_user_get_by_id"
    /\ IF User_get_by_id(call[p].user_id) = NoRow
       THEN Finish(p, "False", "not_found")
       ELSE Goto(p, "delete_user_active_lendings") /\ UNCHANGED <<call, loc>>
    /\ UNCHANGED <<db, clock, modelsOnPath, last_insert_rowid, dbFaults>>

\* The same step without the count of lines 177-185.
User_delete_active_lendings_unchecked(p) ==
    /\ pc[p] = "delete_user_active_lendings"
    /\ Goto(p, "delete_user_update")
    /\ UNCHANGED <<db, clock, modelsOnPath, last_insert_rowid, dbFaults, call,
                   loc>>

\* lines 177-185: SELECT COUNT(*) FROM lending WHERE user_id = ? AND
\* status = 'active'
User_delete_active_lendings(p) ==
    /\ pc[p] = "delete_user_active_lendings"
    /\ IF \E l \in 1..Len(lending) : /\ lending[l] # NoRow
                                      /\ lending[l].user_id = call[p].user_id
                                      /\ lending[l].status = "active"
       THEN Finish(p, "False", "active_lendings")
       ELSE Goto(p, "delete_user_update") /\ UNCHANGED <<call, loc>>
    /\ UNCHANGED <<db, clock, modelsOnPath, last_insert_rowid, dbFaults>>

\* lines 187-196: UPDATE users SET is_active = 0 WHERE user_id = ?
User_delete_update(p) ==
    /\ pc[p] = "delete_user_update"
    /\ \E ok \in BOOLEAN :
         /\ execute_update(ok)
         /\ users' = IF ok
                     THEN [users EXCEPT ![call[p].user_id].is_active = FALSE]
                     ELSE users
         /\ Finish(p, IF ok THEN "True" ELSE "False", "update")
    /\ UNCHANGED <<books, lending, reservations, notifications, clock,
                   modelsOnPath, last_insert_rowid>>

DeleteUserStep(p) ==
    \/ delete_user_get_by_id(p)
    \/ User_delete_active_lendings(p)
    \/ User_delete_update(p)

\* A driver that issues, returns, reserves and deactivates users, one call
\* at a time, on a database some of whose writes fail.
DeactivateNext ==
    \/ /\ Quiet
       /\ Len(script) < DeactivateScriptLen
       /\ \/ \E b \in BookIds, u \in UserIds : CallIssue(1, b, u)
          \/ \E l \in 1..Len(lending) : CallReturn(1, l)
          \/ \E b \in BookIds, u \in UserIds : CallReserve(1, b, u)
          \/ \E u \in ArgUserIds : CallDeleteUser(1, u)
       /\ script' = Append(script, TheCall(1))
       /\ snap' = Append(snap, Tables)
    \/ IssueStep(1)
    \/ issue_book_rollback(1)
    \/ ReturnStep(1)
    \/ ReserveStep(1)
    \/ DeleteUserStep(1)

DeactivateSpec == FaultInit /\ [][DeactivateNext]_vars

----------------------------------------------------------------------------
\* Properties.

\* SELECT * FROM lending WHERE book_id = ? AND status = 'active'
ActiveOfBook(b) ==
    {l \in 1..Len(lending) : /\ lending[l] # NoRow
                             /\ lending[l].book_id = b
                             /\ lending[l].status = "active"}

\* An issue_book or return_book call on book b is in progress.
InProgress(b) ==
    \E p \in Procs :
        \/ call[p].op = "issue_book" /\ call[p].book_id = b
        \/ /\ call[p].op = "return_book"
           /\ Lending_get_by_id(call[p].id) # NoRow
           /\ Lending_get_by_id(call[p].id).book_id = b

\* C1: in every reachable state, whatever the interleaving of issue, return,
\* reserve and cancel calls, every book has
\* 0 <= available_copies <= total_copies.
C1_AvailabilityInRange ==
    \A b \in DOMAIN books :
        /\ 0 <= books[b].available_copies
        /\ books[b].available_copies <= books[b].total_copies

\* Two returns of the same lending have both passed the availability update
\* and the book is full again: the interleaving that a missing upper limit
\* would turn into available_copies > total_copies.
C1_Witness ==
    /\ pc[1] = "return_process_next"
    /\ pc[2] = "return_process_next"
    /\ call[1].id = call[2].id
    /\ books[1].available_copies = books[1].total_copies

\* C2: the number of active lendings of a book never exceeds its
\* total_copies, whatever the interleaving of issue calls.
C2_NoCopyLentTwice ==
    \A b \in DOMAIN books : Cardinality(ActiveOfBook(b)) <= books[b].total_copies

\* C3: whenever no issue or return call on a book is in progress,
\* available_copies = total_copies - (number of active lendings of the book).
C3_LedgerMatchesLoans ==
    \A b \in DOMAIN books :
        ~InProgress(b) =>
            books[b].available_copies =
                books[b].total_copies - Cardinality(ActiveOfBook(b))

\* C5: at most one active lending per (user, book) pair, whatever the
\* interleaving of issue calls.
C5_OneActiveLoanPerPair ==
    \A b \in DOMAIN books, u \in DOMAIN users :
        Cardinality(ActiveLendings(b, u)) <= 1

\* C6: at most one pending reservation per (user, book) pair, whatever the
\* interleaving of reserve calls.
C6_OnePendingPerPair ==
    \A b \in DOMAIN books, u \in DOMAIN users :
        Cardinality(PendingReservations(b, u)) <= 1

\* C4: on a book with available_copies = 1, two issue calls for two different
\* eligible users, interleaved in any way, end with exactly one success and
\* one rejection for want of a copy, one active lending between the two users
\* and available_copies = 0.
C4_ExactlyOneIssueWins ==
    Len(result) = 2 =>
        /\ \E w, l \in 1..2 :
              /\ w # l
              /\ result[w].ret = "Lending"
              /\ result[l].ret = "None" /\ result[l].at = "not_available"
        /\ Cardinality(ActiveLendings(1, 1) \cup ActiveLendings(1, 2)) = 1
        /\ books[1].available_copies = 0

\* The tables as call k of the script left them.
After(k) == IF k < Len(snap) THEN snap[k + 1] ELSE Tables

IsCall(k, op, b, u, id) ==
    /\ script[k].op = op
    /\ script[k].book_id = b
    /\ script[k].user_id = u
    /\ script[k].id = id

\* C7: when return_book is called twice in a row on a lending that was
\* active, the first call succeeds, the second fails because the lending is
\* no longer active, available_copies has gone up by exactly one, and the
\* second call leaves every table as it found it.
C7_SecondReturnIsRejected ==
    \A k \in 1..(Len(result) - 1) :
        ( /\ script[k].op = "return_book"
          /\ script[k + 1] = script[k]
          /\ snap[k].lending[script[k].id].status = "active" ) =>
            LET b == snap[k].lending[script[k].id].book_id IN
            /\ result[k].ret = "True"
            /\ result[k + 1].ret = "False"
            /\ result[k + 1].at = "not_active"
            /\ After(k + 1).books[b].available_copies =
                   snap[k].books[b].available_copies + 1
            /\ After(k + 1) = snap[k + 1]

\* C9: on a book with one copy and two active users 1 and 2, run in sequence:
\* issue to 1 succeeds and leaves 0 copies; issue to 2 is refused for want of
\* a copy; reserve for 2 succeeds and the queue is [2]; return of the lending
\* succeeds, leaves 1 copy and a notification addressed to 2; issue to 2
\* succeeds and leaves 0 copies.
C9_Scenario ==
    ( /\ Len(result) = 5
      /\ snap[1].books[1].total_copies = 1
      /\ users[1].is_active /\ users[2].is_active
      /\ IsCall(1, "issue_book", 1, 1, 0)
      /\ IsCall(2, "issue_book", 1, 2, 0)
      /\ IsCall(3, "create_reservation", 1, 2, 0)
      /\ IsCall(4, "return_book", 0, 0, 1)
      /\ IsCall(5, "issue_book", 1, 2, 0) ) =>
        /\ result[1].ret = "Lending"
        /\ After(1).books[1].available_copies = 0
        /\ result[2].ret = "None" /\ result[2].at = "not_available"
        /\ result[3].ret = "Reservation"
        /\ \E r \in DOMAIN After(3).reservations :
              /\ After(3).reservations[r].user_id = 2
              /\ \A q \in DOMAIN After(3).reservations :
                    After(3).reservations[q].status = "pending" => q = r
        /\ result[4].ret = "True"
        /\ After(4).books[1].available_copies = 1
        /\ \E n \in DOMAIN After(4).notifications :
              After(4).notifications[n].user_id = 2
        /\ result[5].ret = "Lending"
        /\ After(5).books[1].available_copies = 0

\* Reservation r was pending when its holder made an issue call for its book
\* that succeeded, and it is pending still.
PendingAfterIssue(r) ==
    /\ r \in DOMAIN reservations
    /\ reservations[r].status = "pending"
    /\ \E k \in 1..Len(result) :
          /\ script[k].op = "issue_book"
          /\ script[k].book_id = reservations[r].book_id
          /\ script[k].user_id = reservations[r].user_id
          /\ result[k].ret = "Lending"
          /\ r \in DOMAIN snap[k].reservations
          /\ snap[k].reservations[r].status = "pending"

\* C10: when a user who has a pending reservation of a book is issued that
\* book, the reservation eventually becomes fulfilled.
C10_ReservationEventuallyFulfilled ==
    \A r \in 1..ScriptLen :
        PendingAfterIssue(r) ~>
            (r \in DOMAIN reservations /\ reservations[r].status = "fulfilled")

\* C8: whenever a return inserts the notification for the reservation it
\* selected, no other pending reservation of the same book has an earlier
\* reservation_date.
C8_PromotionInOrder ==
    [][\A p \in Procs :
          (process_next_reservation_notify(p)
             /\ Len(notifications') > Len(notifications)) =>
              \A q \in PendingOfBook(loc[p].row.book_id) :
                  reservations[loc[p].sel].reservation_date
                      <= reservations[q].reservation_date]_vars

\* The rows of a table that have not been deleted, with their ids.
Rows(t) == {<<i, t[i]>> : i \in {j \in DOMAIN t : t[j] # NoRow}}

\* C11: when the availability update of an issue_book call is refused or
\* fails, the call returns None and the lendings and the book's
\* available_copies are as they were before the call.
C11_FailedIssueLeavesNoLoan ==
    \A k \in 1..Len(result) :
        (script[k].op = "issue_book" /\ result[k].at = "rollback") =>
            /\ result[k].ret = "None"
            /\ Rows(After(k).lending) = Rows(snap[k].lending)
            /\ After(k).books = snap[k].books

\* C12: a return_book call that does not succeed, whichever of its steps
\* failed, leaves every table as it was before the call: the lending is
\* still active and available_copies is unchanged.
C12_FailedReturnChangesNothing ==
    \A k \in 1..Len(result) :
        (script[k].op = "return_book" /\ result[k].ret # "True") =>
            After(k) = snap[k]

\* Table t has an active lending of book b by user u.
HasActiveLoan(t, b, u) ==
    \E l \in DOMAIN t.lending :
        /\ t.lending[l] # NoRow
        /\ t.lending[l].book_id = b
        /\ t.lending[l].user_id = u
        /\ t.lending[l].status = "active"

\* C13: issue_book returns None and leaves every table as it was when the
\* book does not exist, the user does not exist or is inactive, or the user
\* already has an active lending of the book; and every lending it creates
\* is of an existing book to an existing, active user.
C13_IssuePreconditions ==
    /\ \A k \in 1..Len(result) :
          script[k].op = "issue_book" =>
              LET b == script[k].book_id
                  u == script[k].user_id
              IN  /\ ( \/ b \notin DOMAIN snap[k].books
                       \/ u \notin DOMAIN users
                       \/ ~users[u].is_active
                       \/ HasActiveLoan(snap[k], b, u) ) =>
                         (result[k].ret = "None" /\ After(k) = snap[k])
                  /\ result[k].ret = "Lending" =>
                         /\ b \in DOMAIN books
                         /\ u \in DOMAIN users
                         /\ users[u].is_active
    /\ \A l \in 1..Len(lending) :
          lending[l] # NoRow =>
              /\ lending[l].book_id \in DOMAIN books
              /\ lending[l].user_id \in DOMAIN users
              /\ users[lending[l].user_id].is_active

\* An issue to a user who has the book already was refused, after an issue
\* of a book that does not exist was.
C13_Witness ==
    \E j, k \in 1..Len(result) :
        /\ j < k
        /\ script[j].op = "issue_book"
        /\ script[j].book_id \notin DOMAIN books
        /\ script[k].op = "issue_book"
        /\ HasActiveLoan(snap[k], script[k].book_id, script[k].user_id)
        /\ snap[k].books[script[k].book_id].available_copies > 0
        /\ result[k].ret = "None"

\* C14: whenever create_reservation inserts a pending reservation, the book
\* has available_copies = 0 at that moment, also while a return_book of the
\* same book runs concurrently.
C14_ReservedOnlyWhenNoCopy ==
    [][\A p \in Procs :
          (create_reservation_save(p)
             /\ Len(reservations') > Len(reservations)) =>
              books[call[p].book_id].available_copies = 0]_vars

\* Table t has a pending reservation of book b by user u.
HasPending(t, b, u) ==
    \E r \in DOMAIN t.reservations :
        /\ t.reservations[r].book_id = b
        /\ t.reservations[r].user_id = u
        /\ t.reservations[r].status = "pending"

\* C15: create_reservation returns None and leaves every table as it was
\* when the user does not exist or is inactive, has an active lending of the
\* book, or has a pending reservation of it already; when it succeeds it
\* appends exactly one reservation, pending and not notified, of that book
\* for that user, and changes nothing else.
C15_ReservePreconditions ==
    \A k \in 1..Len(result) :
        script[k].op = "create_reservation" =>
            LET b == script[k].book_id
                u == script[k].user_id
            IN  /\ ( \/ u \notin DOMAIN users
                     \/ ~users[u].is_active
                     \/ HasActiveLoan(snap[k], b, u)
                     \/ HasPending(snap[k], b, u) ) =>
                       (result[k].ret = "None" /\ After(k) = snap[k])
                /\ result[k].ret = "Reservation" =>
                       /\ Len(After(k).reservations) =
                              Len(snap[k].reservations) + 1
                       /\ SubSeq(After(k).reservations, 1,
                                 Len(snap[k].reservations)) = snap[k].reservations
                       /\ LET row == After(k).reservations[
                                         Len(After(k).reservations)]
                          IN  /\ row.book_id = b
                              /\ row.user_id = u
                              /\ row.status = "pending"
                              /\ row.notification_sent = FALSE
                       /\ After(k).books = snap[k].books
                       /\ After(k).lending = snap[k].lending
                       /\ After(k).notifications = snap[k].notifications

\* A reservation was made, and the same user's second request for the same
\* book was refused.
C15_Witness ==
    \E j, k \in 1..Len(result) :
        /\ j < k
        /\ script[j].op = "create_reservation"
        /\ result[j].ret = "Reservation"
        /\ script[k].op = "create_reservation"
        /\ HasPending(snap[k], script[k].book_id, script[k].user_id)
        /\ result[k].ret = "None"

\* C16: cancel returns True only on a reservation that was pending, and then
\* sets its status to cancelled and changes nothing else; on a cancelled or
\* fulfilled reservation it returns False and leaves every table as it was.
C16_CancelOnlyFromPending ==
    \A k \in 1..Len(result) :
        script[k].op = "cancel" =>
            LET r == script[k].id IN
            IF r \in DOMAIN snap[k].reservations
                  /\ snap[k].reservations[r].status = "pending"
            THEN /\ result[k].ret = "True"
                 /\ After(k) =
                       [snap[k] EXCEPT !.reservations[r].status = "cancelled"]
            ELSE /\ result[k].ret = "False"
                 /\ After(k) = snap[k]

\* A pending reservation was cancelled, and then a fulfilled or cancelled
\* one was refused.
C16_Witness ==
    \E j, k \in 1..Len(result) :
        /\ j < k
        /\ script[j].op = "cancel"
        /\ result[j].ret = "True"
        /\ script[k].op = "cancel"
        /\ script[k].id \in DOMAIN snap[k].reservations
        /\ snap[k].reservations[script[k].id].status \in {"cancelled", "fulfilled"}
        /\ result[k].ret = "False"

\* C17: once the stored status of a reservation is fulfilled or cancelled it
\* never changes again, whatever the interleaving of cancel, fulfill and
\* notify_user calls, also through objects loaded before the status changed.
C17_TerminalStatusIsFinal ==
    [][\A r \in DOMAIN reservations :
          reservations[r].status \in {"fulfilled", "cancelled"} =>
              reservations'[r].status = reservations[r].status]_vars

\* The pending reservations of book b by user u in the table at call k.
PendingAt(k, b, u) ==
    {r \in DOMAIN snap[k].reservations :
        /\ snap[k].reservations[r].book_id = b
        /\ snap[k].reservations[r].user_id = u
        /\ snap[k].reservations[r].status = "pending"}

\* The number of reservations that are ahead of reservation r at call k:
\* pending, of the same book, with a strictly earlier date.
AheadOf(k, r) ==
    Cardinality({q \in DOMAIN snap[k].reservations :
        /\ snap[k].reservations[q].status = "pending"
        /\ snap[k].reservations[q].book_id = snap[k].reservations[r].book_id
        /\ snap[k].reservations[q].reservation_date
              < snap[k].reservations[r].reservation_date})

\* C18: for a user with a pending reservation of the book,
\* get_queue_position returns 1 plus the number of pending reservations of
\* that book with a strictly earlier reservation_date; cancelled and
\* fulfilled reservations and those of other books are not counted.
C18_QueuePosition ==
    \A k \in 1..Len(result) :
        script[k].op = "get_queue_position" =>
            \A r \in PendingAt(k, script[k].book_id, script[k].user_id) :
                result[k].value = 1 + AheadOf(k, r)

\* The position was asked for a reservation that is second in its queue,
\* behind one pending reservation, with a reservation that is no longer
\* pending, or is of another book, made before it as well.
C18_Witness ==
    \E k \in 1..Len(result) :
        /\ script[k].op = "get_queue_position"
        /\ \E r \in PendingAt(k, script[k].book_id, script[k].user_id) :
              /\ AheadOf(k, r) = 1
              /\ \E q \in DOMAIN snap[k].reservations :
                    /\ snap[k].reservations[q].reservation_date
                          < snap[k].reservations[r].reservation_date
                    /\ \/ snap[k].reservations[q].status # "pending"
                       \/ snap[k].reservations[q].book_id # script[k].book_id
        /\ result[k].value = 2

\* C19: for a user with no pending reservation of the book, whether the user
\* never reserved it or the reservation is cancelled or fulfilled,
\* get_queue_position returns no position.
C19_NoPositionWithoutReservation ==
    \A k \in 1..Len(result) :
        ( /\ script[k].op = "get_queue_position"
          /\ PendingAt(k, script[k].book_id, script[k].user_id) = {} ) =>
            result[k].ret = "None"

\* The reasons for which the issue_book call k is to be refused.
RejectionCauses(k) ==
    LET b == script[k].book_id
        u == script[k].user_id
    IN  {c \in {"NotFound", "NotAvailable", "HolderInactive", "AlreadyHolding"} :
           \/ c = "NotFound"
                 /\ (b \notin DOMAIN snap[k].books \/ u \notin DOMAIN users)
           \/ c = "NotAvailable"
                 /\ b \in DOMAIN snap[k].books
                 /\ snap[k].books[b].available_copies = 0
           \/ c = "HolderInactive"
                 /\ u \in DOMAIN users /\ ~users[u].is_active
           \/ c = "AlreadyHolding"
                 /\ HasActiveLoan(snap[k], b, u)}

\* C20: two issue_book calls that are refused for different reasons (a
\* missing book or user, no copy left, an inactive user, a lending of the
\* book the user has already) return different results to their callers.
C20_TypedRejections ==
    \A j, k \in 1..Len(result) :
        ( /\ script[j].op = "issue_book" /\ script[k].op = "issue_book"
          /\ Cardinality(RejectionCauses(j)) = 1
          /\ Cardinality(RejectionCauses(k)) = 1
          /\ RejectionCauses(j) # RejectionCauses(k) ) =>
            result[j].ret # result[k].ret

\* The larger of two integers.
Max(a, b) == IF a >= b THEN a ELSE b

\* C21: the fine of a loan is max(0, days from its due date to its return
\* date) * rate, whatever its status: every calculate_fine asked of a returned
\* loan answers that product.
C21_FineIsPureInDates ==
    \A k \in 1..Len(result) :
        LET row == snap[k].lending[script[k].id]
        IN  ( /\ script[k].op = "calculate_fine"
              /\ row.status = "returned" ) =>
                result[k].value = Max(0, row.return_date - row.due_date)
                                    * script[k].fine_per_day

\* C22: a return that succeeds leaves the loan returned, with the day of the
\* return as its return date and, as its fine, the fine_amount passed when
\* one is passed and otherwise the fine of its due date and its return date
\* at the default rate of 1 a day, so more than 0 when it is returned late.
C22_ReturnRecordsFine ==
    \A k \in 1..Len(result) :
        ( /\ script[k].op = "return_book"
          /\ result[k].ret = "True" ) =>
            LET row == After(k).lending[script[k].id]
            IN  /\ row.status = "returned"
                /\ row.return_date >= script[k].now
                /\ row.return_date <= today
                /\ row.fine_amount =
                      IF script[k].fine_amount # 0
                      THEN script[k].fine_amount
                      ELSE Max(0, row.return_date - row.due_date)

\* The lending a question was asked of, as it was when asked.
Asked(k) == snap[k].lending[script[k].id]

\* C30 as stated: is_overdue answers True exactly for an active loan past its
\* due date, never for a returned one, and days_overdue answers
\* max(0, now - due date) for every loan.
C30_DaysOverdueOfEveryLoan ==
    \A k \in 1..Len(result) :
        /\ script[k].op = "is_overdue" =>
              ( result[k].ret = "True" <=>
                  ( /\ Asked(k).status = "active"
                    /\ script[k].now > Asked(k).due_date ) )
        /\ script[k].op = "days_overdue" =>
              result[k].value = Max(0, script[k].now - Asked(k).due_date)

\* C30, amended: is_overdue answers True exactly for an active loan past its
\* due date, never for a returned one; days_overdue answers
\* max(0, now - due date) for an active loan and 0 for a returned one.
C30_Overdue ==
    \A k \in 1..Len(result) :
        /\ script[k].op = "is_overdue" =>
              /\ result[k].ret = "True" <=>
                    ( /\ Asked(k).status = "active"
                      /\ script[k].now > Asked(k).due_date )
              /\ Asked(k).status = "returned" => result[k].ret = "False"
        /\ script[k].op = "days_overdue" =>
              result[k].value =
                  IF Asked(k).status = "active"
                  THEN Max(0, script[k].now - Asked(k).due_date)
                  ELSE 0

\* days_overdue was asked of a loan returned and past its due date.
C30_Witness ==
    \E k \in 1..Len(result) :
        /\ script[k].op = "days_overdue"
        /\ Asked(k).status = "returned"
        /\ script[k].now > Asked(k).due_date
        /\ result[k].value = 0

\* C23: update_availability(change) with change +1 or -1, called on its own,
\* returns True and sets available_copies to the old value plus change exactly
\* when that sum is between 0 and total_copies; otherwise it returns False;
\* nothing else changes in either case.
C23_AdjustWithinLimits ==
    \A k \in 1..Len(result) :
        script[k].op = "update_availability" =>
            LET b == script[k].book_id
                old == snap[k].books[b]
                sum == old.available_copies + script[k].change
            IN  IF 0 <= sum /\ sum <= old.total_copies
                THEN /\ result[k].ret = "True"
                     /\ After(k) = [snap[k] EXCEPT
                                      !.books[b].available_copies = sum]
                ELSE /\ result[k].ret = "False"
                     /\ After(k) = snap[k]

\* One driver has had a change accepted, one refused below 0 and one refused
\* above total_copies.
C23_Witness ==
    /\ \E k \in 1..Len(result) : result[k].ret = "True"
    /\ \E k \in 1..Len(result) :
          /\ result[k].ret = "False"
          /\ snap[k].books[script[k].book_id].available_copies = 0
    /\ \E k \in 1..Len(result) :
          /\ result[k].ret = "False"
          /\ script[k].change = 1

\* The change a caller asked for, counted when the caller was told True.
AcceptedChange(p) ==
    LET k == CHOOSE j \in 1..Len(script) : script[j].caller = p
        r == CHOOSE j \in 1..Len(result) : result[j].caller = p
    IN  IF result[r].ret = "True" THEN script[k].change ELSE 0

\* C25: when two callers have each had one update_availability call answered,
\* in any interleaving, available_copies is its first value plus the changes
\* of the calls answered True, and it is within 0..total_copies.
C25_NoLostUpdate ==
    ( /\ Len(script) = Cardinality(Procs)
      /\ Len(result) = Cardinality(Procs) ) =>
        \A b \in BookIds :
            /\ books[b].available_copies =
                  snap[1].books[b].available_copies
                    + AcceptedChange(1) + AcceptedChange(2)
            /\ books[b].available_copies >= 0
            /\ books[b].available_copies <= books[b].total_copies

\* The pending reservations of book b in the tables t, and the users who may
\* be said to have waited longest.
PendingIn(t, b) ==
    {r \in 1..Len(t.reservations) :
        /\ t.reservations[r] # NoRow
        /\ t.reservations[r].book_id = b
        /\ t.reservations[r].status = "pending"}

OldestHolders(t, b) ==
    {t.reservations[r].user_id : r \in
        {r1 \in PendingIn(t, b) :
            \A r2 \in PendingIn(t, b) :
                t.reservations[r1].reservation_date
                    <= t.reservations[r2].reservation_date}}

\* The notifications call k of the script added.
Emitted(k) ==
    SubSeq(After(k).notifications, Len(snap[k].notifications) + 1,
           Len(After(k).notifications))

\* C24: every return that succeeds, by Lending.return_book or by the command
\* line, on a book with a pending reservation emits exactly one notification,
\* addressed to the holder of the oldest pending reservation of that book;
\* on a book with none it emits none.
C24_EveryReturnOffersTheCopy ==
    \A k \in 1..Len(result) :
        ( /\ script[k].op \in {"return_book", "cli_return_book"}
          /\ result[k].ret = "True" ) =>
            LET b == snap[k].lending[script[k].id].book_id
            IN  IF PendingIn(snap[k], b) = {}
                THEN Emitted(k) = <<>>
                ELSE /\ Len(Emitted(k)) = 1
                     /\ Emitted(k)[1].book_id = b
                     /\ Emitted(k)[1].user_id \in OldestHolders(snap[k], b)

\* C26: two return calls on the same active lending, interleaved in any way,
\* end with one told True and the other False, and available_copies of the
\* book one more than before.
C26_ExactlyOneReturnWins ==
    ( /\ Len(script) = Cardinality(Procs)
      /\ Len(result) = Cardinality(Procs) ) =>
        /\ \E w, l \in 1..Len(result) :
              /\ w # l
              /\ result[w].ret = "True"
              /\ result[l].ret = "False"
        /\ books[1].available_copies = snap[1].books[1].available_copies + 1

\* Reservation r1 is before r2 in the queue of its book: earlier, or at the
\* same reservation_date and created first.
CreatedBefore(t, r1, r2) ==
    \/ t.reservations[r1].reservation_date < t.reservations[r2].reservation_date
    \/ /\ t.reservations[r1].reservation_date
            = t.reservations[r2].reservation_date
       /\ r1 < r2

\* C27: of two pending reservations of a book with the same reservation_date
\* the one created first has the lower queue position, and a return that
\* notifies anyone notifies the holder of the reservation that is first by
\* reservation_date and then by creation.
C27_TieBrokenByCreation ==
    /\ \A j, k \in 1..Len(result) :
          ( /\ script[j].op = "get_queue_position"
            /\ script[k].op = "get_queue_position"
            /\ script[j].book_id = script[k].book_id
            /\ snap[j].reservations = snap[k].reservations ) =>
              \A r1 \in PendingAt(j, script[j].book_id, script[j].user_id),
                 r2 \in PendingAt(k, script[k].book_id, script[k].user_id) :
                  ( /\ snap[j].reservations[r1].reservation_date
                          = snap[j].reservations[r2].reservation_date
                    /\ r1 < r2 ) =>
                      result[j].value < result[k].value
    /\ \A k \in 1..Len(result) :
          ( /\ script[k].op = "return_book"
            /\ result[k].ret = "True"
            /\ Emitted(k) # <<>> ) =>
              LET b == snap[k].lending[script[k].id].book_id
              IN  \E r1 \in PendingIn(snap[k], b) :
                    /\ \A r2 \in PendingIn(snap[k], b) \ {r1} :
                          CreatedBefore(snap[k], r1, r2)
                    /\ Emitted(k)[1].user_id = snap[k].reservations[r1].user_id

\* C28: after a return that succeeds on a book with a pending reservation,
\* an oldest pending reservation of that book has notification_sent set; and
\* a reservation has notification_sent set only if a notification addressed
\* to its holder for its book has been emitted.
C28_PromotionMarksNotified ==
    /\ \A k \in 1..Len(result) :
          ( /\ script[k].op = "return_book"
            /\ result[k].ret = "True" ) =>
              LET b == snap[k].lending[script[k].id].book_id
              IN  PendingIn(snap[k], b) # {} =>
                    \E r \in PendingIn(snap[k], b) :
                        /\ snap[k].reservations[r].user_id
                              \in OldestHolders(snap[k], b)
                        /\ After(k).reservations[r].notification_sent
    /\ \A r \in 1..Len(reservations) :
          ( /\ reservations[r] # NoRow
            /\ reservations[r].notification_sent ) =>
              \E n \in 1..Len(notifications) :
                  /\ notifications[n].user_id = reservations[r].user_id
                  /\ notifications[n].book_id = reservations[r].book_id

\* C29: the steps of _process_next_reservation change neither the books
\* (available_copies) nor any lending nor any reservation: the reservation
\* selected stays pending and those of other holders are as they were.
C29_PromotionFrame ==
    [][ (\E p \in Procs : \/ process_next_reservation_select(p)
                          \/ process_next_reservation_notify(p))
          => UNCHANGED <<books, lending, reservations>> ]_vars

\* A return has notified the holder of a reservation, which is still pending,
\* and has left every reservation as it was.
C29_Witness ==
    \E k \in 1..Len(result) :
        /\ script[k].op = "return_book"
        /\ result[k].ret = "True"
        /\ Emitted(k) # <<>>
        /\ After(k).reservations = snap[k].reservations
        /\ \E r \in PendingIn(After(k), Emitted(k)[1].book_id) :
              After(k).reservations[r].user_id = Emitted(k)[1].user_id

\* C31: a lending is removed only by the rollback of the issue_book call that
\* created it, and a lending that is returned stays as it is: it does not
\* become active again and its return_date and fine_amount do not change.
C31_LoanHistory ==
    [][ \A l \in 1..Len(lending) :
          lending[l] # NoRow =>
            /\ l <= Len(lending')
            /\ lending'[l] = NoRow =>
                  \E p \in Procs : /\ issue_book_rollback(p)
                                    /\ call[p].id = l
            /\ lending[l].status = "returned" => lending'[l] = lending[l] ]_vars

\* C32: available_copies of a book changes only in a step of an issue_book
\* or return_book call, and then by exactly 1 up or down.
C32_AvailabilityOnlyByLedger ==
    [][ \A b \in DOMAIN books :
          books'[b].available_copies # books[b].available_copies =>
            /\ \/ books'[b].available_copies = books[b].available_copies + 1
               \/ books'[b].available_copies = books[b].available_copies - 1
            /\ \E p \in Procs : /\ call[p].op \in {"issue_book", "return_book"}
                                  /\ pc'[p] # pc[p] ]_vars


\* What belongs to book b in the tables t: its available_copies, and the
\* lendings, reservations and notifications that name it.
BelongsTo(t, b) ==
    [available_copies |-> t.books[b].available_copies,
     lending |-> {<<l, t.lending[l]>> : l \in
                    {k \in 1..Len(t.lending) : /\ t.lending[k] # NoRow
                                               /\ t.lending[k].book_id = b}},
     reservations |-> {<<r, t.reservations[r]>> : r \in
                         {k \in 1..Len(t.reservations) :
                              t.reservations[k].book_id = b}},
     notifications |-> {<<n, t.notifications[n]>> : n \in
                          {k \in 1..Len(t.notifications) :
                               t.notifications[k].book_id = b}}]

\* The book an operation in progress is about: the book_id it was called
\* with, or the book of the lending or reservation it was called with.
ItemOf(p) ==
    CASE call[p].op \in {"issue_book", "create_reservation"} -> call[p].book_id
      [] call[p].op = "return_book" ->
            IF Lending_get_by_id(call[p].id) = NoRow THEN 0
            ELSE lending[call[p].id].book_id
      [] call[p].op = "cancel" ->
            IF Reservation_get_by_id(call[p].id) = NoRow THEN 0
            ELSE reservations[call[p].id].book_id
      [] OTHER -> 0

\* C33: a statement of an Issue, Return, Reserve or Cancel on one book leaves
\* the available_copies, lendings, reservations and notifications of every
\* other book as they are.
C33_ItemsAreIndependent ==
    [][ \A p \in Procs :
          pc[p] # "idle" /\ pc'[p] # pc[p] =>
            \A b \in ItemBookIds \ {ItemOf(p)} :
                BelongsTo(Tables, b)' = BelongsTo(Tables, b) ]_vars

\* C34: no user has an active lending and a pending reservation of the same
\* book at the same time.
C34_NoLoanWithOwnReservation ==
    \A b \in BookIds, u \in DOMAIN users :
        ActiveLendings(b, u) = {} \/ PendingReservations(b, u) = {}

\* The active lendings of book b to user u in the tables t.
HeldIn(t, b, u) ==
    {l \in 1..Len(t.lending) : /\ t.lending[l] # NoRow
                               /\ t.lending[l].book_id = b
                               /\ t.lending[l].user_id = u
                               /\ t.lending[l].status = "active"}

\* C35: the issue_book command records no lending for a user who has an
\* active lending of the book, and a lending it records comes with the
\* book's available_copies lowered by one, as with Lending.issue_book.
C35_CliIssueLikeIssueBook ==
    \A k \in 1..Len(result) :
        script[k].op = "cli_issue_book" =>
          LET b == script[k].book_id
              u == script[k].user_id IN
            /\ HeldIn(snap[k], b, u) # {} => After(k).lending = snap[k].lending
            /\ After(k).lending # snap[k].lending =>
                  After(k).books[b].available_copies =
                      snap[k].books[b].available_copies - 1

\* The reservations the notification of return call k is about: the pending
\* reservations of the book, the oldest there are, held by the user told.
NotifiedBy(k) ==
    IF Emitted(k) = <<>> THEN {}
    ELSE {r \in PendingIn(snap[k], Emitted(k)[1].book_id) :
            /\ snap[k].reservations[r].user_id = Emitted(k)[1].user_id
            /\ snap[k].reservations[r].user_id
                  \in OldestHolders(snap[k], Emitted(k)[1].book_id)}

\* C36: no reservation is notified by two returns.
C36_NotifiedAtMostOnce ==
    \A k1, k2 \in 1..Len(result) :
        ( /\ k1 < k2
          /\ script[k1].op = "return_book"
          /\ script[k2].op = "return_book" ) =>
            NotifiedBy(k1) \cap NotifiedBy(k2) = {}

\* A notification addressed to the holder of reservation r for its book has
\* been inserted.
NotifiedOf(r) ==
    \E n \in 1..Len(notifications) :
        /\ notifications[n].user_id = reservations[r].user_id
        /\ notifications[n].book_id = reservations[r].book_id

ActiveIn(t, b) ==
    {l \in 1..Len(t.lending) : /\ t.lending[l] # NoRow
                               /\ t.lending[l].book_id = b
                               /\ t.lending[l].status = "active"}

\* C38: Book.delete on a book with an active lending or a pending
\* reservation returns False and leaves every table as it was; and every
\* active lending and every pending reservation is of a book that exists.
C38_DeleteRefusedWhileInUse ==
    /\ \A k \in 1..Len(result) :
          ( /\ script[k].op = "delete_book"
            /\ \/ ActiveIn(snap[k], script[k].book_id) # {}
               \/ PendingIn(snap[k], script[k].book_id) # {} ) =>
              /\ result[k].ret = "False"
              /\ After(k) = snap[k]
    /\ \A l \in 1..Len(lending) :
          (lending[l] # NoRow /\ lending[l].status = "active") =>
              lending[l].book_id \in DOMAIN books
    /\ \A r \in 1..Len(reservations) :
          reservations[r].status = "pending" =>
              reservations[r].book_id \in DOMAIN books

\* A delete of a book with an active lending has been refused, and the
\* lending is still there.
C38_Witness ==
    \E k \in 1..Len(result) :
        /\ script[k].op = "delete_book"
        /\ ActiveIn(snap[k], script[k].book_id) # {}
        /\ result[k].ret = "False"
        /\ ActiveIn(Tables, script[k].book_id) # {}

\* The active lendings of user u.
ActiveOfUser(u) ==
    {l \in 1..Len(lending) : /\ lending[l] # NoRow
                             /\ lending[l].user_id = u
                             /\ lending[l].status = "active"}

\* C39: no statement of User.delete changes a book, a lending, a reservation
\* or a notification; it changes no user while the user has an active
\* lending, and then returns False; otherwise it does no more than set the
\* user's is_active to False; and the holder of every active lending is an
\* active user.
C39_DeactivateRefusedWhileHolding ==
    /\ [][ \A p \in Procs :
             (call[p].op = "delete_user" /\ pc'[p] # pc[p]) =>
               /\ db' = <<books, users', lending, reservations, notifications>>
               /\ \/ users' = users
                  \/ /\ ActiveOfUser(call[p].user_id) = {}
                     /\ users' =
                           [users EXCEPT ![call[p].user_id].is_active = FALSE]
               /\ ( /\ ActiveOfUser(call[p].user_id) # {}
                    /\ Len(result') > Len(result) ) =>
                        result'[Len(result')].ret = "False" ]_vars
    /\ [] \A l \in 1..Len(lending) :
            (lending[l] # NoRow /\ lending[l].status = "active") =>
                users[lending[l].user_id].is_active

\* A deactivation has been refused for a user who holds a book, and one has
\* gone through for another user.
C39_Witness ==
    \E k \in 1..Len(result) :
        /\ script[k].op = "delete_user"
        /\ result[k].ret = "False"
        /\ result[k].at = "active_lendings"
        /\ ActiveOfUser(script[k].user_id) # {}
        /\ users[script[k].user_id].is_active
        /\ \E j \in 1..Len(result) :
              /\ script[j].op = "delete_user"
              /\ result[j].ret = "True"
              /\ ~users[script[j].user_id].is_active

====
